---- MODULE Spec2Model ----
(***************************************************************************)
(* Signal group-id resolution and membership gating (src/signal/groups.ts) *)
(* as a state machine: the directory snapshot, the per-group decision      *)
(* cache, the daemon behind the listGroups RPC, the wall clock and the     *)
(* asynchronous calls of the gate and of the resolver.                     *)
(*                                                                         *)
(* Strings are sequences of one-character strings, so that toLowerCase,    *)
(* key concatenation and endsWith are computed as the code computes them.  *)
(***************************************************************************)
EXTENDS Integers, Sequences, FiniteSets, TLC

\* ------------------------------------------------------------------ bounds
\* calls (gate or resolver) started in one behaviour
MaxCalls == 3
\* clock advances in one behaviour
MaxAdvances == 1
\* calls started in one behaviour of the specification of single decisions
MaxDecideCalls == 2
\* concurrent logical calls of the interleaved specification
NProcs == 2
MaxConcCalls == 2
\* group messages arriving at the host in one behaviour
MaxMessages == 4
\* clock advances in one behaviour of the specification of the two TTLs
MaxTtlAdvances == 2

\* ------------------------------------------------------------- JS values
\* string | undefined | null
Undefined == [def |-> FALSE, val |-> <<>>]
Some(s) == [def |-> TRUE, val |-> s]
\* JS truthiness of an optional string: defined and not ""
Truthy(o) == o.def /\ o.val # <<>>

ToLowerChar(c) ==
  CASE c = "A" -> "a"
    [] c = "B" -> "b"
    [] c = "C" -> "c"
    [] c = "D" -> "d"
    [] c = "E" -> "e"
    [] c = "F" -> "f"
    [] OTHER -> c

\* String.prototype.toLowerCase
ToLower(s) == [i \in DOMAIN s |-> ToLowerChar(s[i])]

\* String.prototype.endsWith
EndsWith(s, suffix) ==
  /\ Len(suffix) <= Len(s)
  /\ SubSeq(s, Len(s) - Len(suffix) + 1, Len(s)) = suffix

\* String.prototype.startsWith
StartsWith(s, prefix) ==
  /\ Len(prefix) <= Len(s)
  /\ SubSeq(s, 1, Len(prefix)) = prefix

\* the least index of a non-empty set of indices
MinIndex(S) == CHOOSE i \in S : \A j \in S : i <= j

\* ------------------------------------------------------------ time (ms)
GROUP_ID_CACHE_TTL_MS == 5 * 60 * 1000
MEMBERSHIP_CACHE_TTL_MS == 60 * 1000
\* Date.now() at start-up: any epoch time is far beyond both TTLs, which is
\* what makes cachedAt = 0 mean "stale"
StartTime == 4 * GROUP_ID_CACHE_TTL_MS
\* the amounts the clock advances by between steps
Advances == {MEMBERSHIP_CACHE_TTL_MS \div 2, GROUP_ID_CACHE_TTL_MS}

\* --------------------------------------------------------- identities
IsDigit(c) == c \in {"0", "1", "2", "3", "4", "5", "6", "7", "8", "9"}
IsHex(c) == IsDigit(c) \/ ToLowerChar(c) \in {"a", "b", "c", "d", "e", "f"}

\* the UUID shapes: 32 hex digits, compact or hyphenated 8-4-4-4-12
UuidHexDigits == 8 + 4 + 4 + 4 + 12
UuidHyphenAt == {9, 14, 19, 24}
looksLikeUuid(s) ==
  \/ /\ Len(s) = UuidHexDigits
     /\ \A i \in DOMAIN s : IsHex(s[i])
  \/ /\ Len(s) = UuidHexDigits + Cardinality(UuidHyphenAt)
     /\ \A i \in DOMAIN s : IF i \in UuidHyphenAt THEN s[i] = "-" ELSE IsHex(s[i])

\* the phone-number normalizer the gate consumes: string -> canonical E.164
\* ("+" followed by digits only) or null (here Undefined) when no digit is left
normalizeE164(number) ==
  LET digits == SelectSeq(number, IsDigit)
  IN IF digits = <<>> THEN Undefined ELSE Some(<<"+">> \o digits)

\* the wildcard entry
Star == <<"*">>
UuidPrefix == <<"u", "u", "i", "d", ":">>
\* the allow-entry parser the gate consumes:
\* string -> {kind: "any"} | {kind: "phone", e164} | {kind: "uuid", raw} | null
NullEntry == [kind |-> "null", e164 |-> <<>>, raw |-> <<>>]
parseSignalAllowEntry(entry) ==
  IF entry = Star THEN [kind |-> "any", e164 |-> <<>>, raw |-> <<>>]
  ELSE IF StartsWith(entry, UuidPrefix)
    THEN LET raw == SubSeq(entry, Len(UuidPrefix) + 1, Len(entry))
         IN IF raw = <<>> THEN NullEntry
            ELSE [kind |-> "uuid", e164 |-> <<>>, raw |-> raw]
  ELSE IF looksLikeUuid(entry)
    THEN [kind |-> "uuid", e164 |-> <<>>, raw |-> entry]
  ELSE LET e == normalizeE164(entry)
       IN IF e.def THEN [kind |-> "phone", e164 |-> e.val, raw |-> <<>>]
          ELSE NullEntry

\* ------------------------------------------------ messaging targets
\* the identifier normalizer (channels/plugins/normalize/signal.js)
SignalPrefix == <<"s", "i", "g", "n", "a", "l", ":">>
GroupPrefix == <<"g", "r", "o", "u", "p", ":">>
StripPrefix(s, prefix) == SubSeq(s, Len(prefix) + 1, Len(s))
IsCompactUuid(s) == Len(s) = UuidHexDigits /\ \A i \in DOMAIN s : IsHex(s[i])
\* hyphens re-inserted at the (0-based) positions 8, 13, 18 and 23
InsertHyphens(s) ==
  SubSeq(s, 1, 8) \o <<"-">> \o SubSeq(s, 9, 12) \o <<"-">> \o SubSeq(s, 13, 16)
    \o <<"-">> \o SubSeq(s, 17, 20) \o <<"-">> \o SubSeq(s, 21, 32)
IsPhoneShape(s) ==
  /\ s # <<>>
  /\ s[1] = "+" \/ IsDigit(s[1])
  /\ \A i \in 2..Len(s) : IsDigit(s[i])
  /\ \E i \in DOMAIN s : IsDigit(s[i])

\* a UUID body lower-cased, its hyphens left out when it is compact
normalizeUuidBodyNoHyphens(body) == ToLower(body)

\* a UUID body: lower-cased, hyphenated when it is compact
normalizeUuidBody(body) ==
  LET lowered == ToLower(body)
  IN IF IsCompactUuid(lowered) THEN InsertHyphens(lowered) ELSE lowered

\* the classifier taking any non-empty body after uuid: for a UUID
looksLikeSignalTargetIdAnyBody(raw) ==
  LET rest == IF StartsWith(raw, SignalPrefix) THEN StripPrefix(raw, SignalPrefix) ELSE raw
  IN IF StartsWith(rest, UuidPrefix) THEN StripPrefix(rest, UuidPrefix) # <<>>
     ELSE IF StartsWith(rest, GroupPrefix) THEN StripPrefix(rest, GroupPrefix) # <<>>
     ELSE looksLikeUuid(rest)

\* the classifier: true for what the UUID branches and the group branch of
\* the normalizer accept
looksLikeSignalTargetId(raw) ==
  LET rest == IF StartsWith(raw, SignalPrefix) THEN StripPrefix(raw, SignalPrefix) ELSE raw
  IN IF StartsWith(rest, UuidPrefix) THEN looksLikeUuid(StripPrefix(rest, UuidPrefix))
     ELSE IF StartsWith(rest, GroupPrefix) THEN StripPrefix(rest, GroupPrefix) # <<>>
     ELSE looksLikeUuid(rest)

\* the normalizer lower-casing its input before it looks at it
normalizeSignalMessagingTargetLowersAll(raw) ==
  LET low == ToLower(raw)
      rest == IF StartsWith(low, SignalPrefix) THEN StripPrefix(low, SignalPrefix) ELSE low
  IN IF StartsWith(rest, UuidPrefix) THEN normalizeUuidBody(StripPrefix(rest, UuidPrefix))
     ELSE IF StartsWith(rest, GroupPrefix) THEN GroupPrefix \o StripPrefix(rest, GroupPrefix)
     ELSE IF looksLikeUuid(rest) THEN normalizeUuidBody(rest)
     ELSE IF IsPhoneShape(rest) THEN normalizeE164(rest).val
     ELSE rest

normalizeSignalMessagingTarget(raw) ==
  LET rest == IF StartsWith(raw, SignalPrefix) THEN StripPrefix(raw, SignalPrefix) ELSE raw
  IN IF StartsWith(rest, UuidPrefix) THEN normalizeUuidBody(StripPrefix(rest, UuidPrefix))
     ELSE IF StartsWith(rest, GroupPrefix) THEN GroupPrefix \o StripPrefix(rest, GroupPrefix)
     ELSE IF looksLikeUuid(rest) THEN normalizeUuidBody(rest)
     ELSE IF IsPhoneShape(rest) THEN normalizeE164(rest).val
     ELSE rest

\* ------------------------------------------------------ the directory
\* SignalGroupMember: number and uuid are string | null | undefined
Member(number, uuid) == [number |-> number, uuid |-> uuid]
\* SignalGroupEntry: id, and members?: SignalGroupMember[] (absent: hasMembers FALSE)
Group(id, members) == [id |-> id, hasMembers |-> TRUE, members |-> members]
GroupNoMembers(id) == [id |-> id, hasMembers |-> FALSE, members |-> <<>>]

\* ------------------------------------------------ keys of the two caches
Bar == <<"|">>
\* the account key made of the endpoint alone
buildAccountKeyEndpointOnly(baseUrl, account) == baseUrl \o Bar
\* `${baseUrl}|${account ?? ""}`
buildAccountKey(baseUrl, account) ==
  baseUrl \o Bar \o (IF account.def THEN account.val ELSE <<>>)
\* `${accountKey}|${groupId}`
buildCacheKey(accountKey, groupId) == accountKey \o Bar \o groupId


\* the lookup of lines 187-189 with the fallback alone: the first group whose
\* lower-cased id is the lower-cased query
FindGroupLooseFirst(groups, groupId) ==
  LET lowered == ToLower(groupId)
      loose == {i \in DOMAIN groups : ToLower(groups[i].id) = lowered}
  IN IF loose # {} THEN MinIndex(loose) ELSE 0

\* --------------------------------------------- the gate's computation
\* groups.find(g => g.id === groupId) ?? groups.find(g => g.id.toLowerCase() === lowered)
\* as the index of the group found, 0 when there is none
FindGroupExactFirst(groups, groupId) ==
  LET lowered == ToLower(groupId)
      exact == {i \in DOMAIN groups : groups[i].id = groupId}
      loose == {i \in DOMAIN groups : ToLower(groups[i].id) = lowered}
  IN IF exact # {} THEN MinIndex(exact)
     ELSE IF loose # {} THEN MinIndex(loose)
     ELSE 0

\* requiredNumbers.map(parseSignalAllowEntry).filter(entry => entry !== null)
ParsedRequired(requiredNumbers) ==
  LET parsed == [i \in DOMAIN requiredNumbers |-> parseSignalAllowEntry(requiredNumbers[i])]
      NotNull(e) == e.kind # "null"
  IN SelectSeq(parsed, NotNull)

\* the test of members.some(...) without lines 223-225: phones alone
MemberMatchesPhoneOnly(member, requiredPhones, requiredUuids) ==
  /\ Truthy(member.number)
  /\ LET normalized == normalizeE164(member.number.val)
     IN Truthy(normalized) /\ normalized.val \in requiredPhones

\* the test of members.some(...): a truthy number whose normalized form is a
\* required phone, or a truthy uuid that is a required uuid
MemberMatches(member, requiredPhones, requiredUuids) ==
  \/ /\ Truthy(member.number)
     /\ LET normalized == normalizeE164(member.number.val)
        IN Truthy(normalized) /\ normalized.val \in requiredPhones
  \/ /\ Truthy(member.uuid)
     /\ member.uuid.val \in requiredUuids

\* the decision for a group found in the directory without lines 204-208:
\* "*" is an entry like another
DecideMembershipNoWildcard(group, requiredNumbers) ==
  LET members == IF group.hasMembers THEN group.members ELSE <<>>
      parsedRequired == ParsedRequired(requiredNumbers)
      requiredPhones == {parsedRequired[i].e164 :
                           i \in {j \in DOMAIN parsedRequired : parsedRequired[j].kind = "phone"}}
      requiredUuids == {parsedRequired[i].raw :
                          i \in {j \in DOMAIN parsedRequired : parsedRequired[j].kind = "uuid"}}
  IN \E i \in DOMAIN members : MemberMatches(members[i], requiredPhones, requiredUuids)

\* the decision for a group found in the directory where a list of which
\* no entry is left after parsing counts like the empty list of line 169
DecideMembershipGrantsNoneParsed(group, requiredNumbers) ==
  LET members == IF group.hasMembers THEN group.members ELSE <<>>
      parsedRequired == ParsedRequired(requiredNumbers)
      requiredPhones == {parsedRequired[i].e164 :
                           i \in {j \in DOMAIN parsedRequired : parsedRequired[j].kind = "phone"}}
      requiredUuids == {parsedRequired[i].raw :
                          i \in {j \in DOMAIN parsedRequired : parsedRequired[j].kind = "uuid"}}
  IN IF parsedRequired = <<>> THEN TRUE
     ELSE IF \E i \in DOMAIN parsedRequired : parsedRequired[i].kind = "any" THEN TRUE
     ELSE \E i \in DOMAIN members : MemberMatches(members[i], requiredPhones, requiredUuids)

\* lines 197-229: the decision for a group found in the directory
DecideMembership(group, requiredNumbers) ==
  LET members == IF group.hasMembers THEN group.members ELSE <<>>
      parsedRequired == ParsedRequired(requiredNumbers)
      requiredPhones == {parsedRequired[i].e164 :
                           i \in {j \in DOMAIN parsedRequired : parsedRequired[j].kind = "phone"}}
      requiredUuids == {parsedRequired[i].raw :
                          i \in {j \in DOMAIN parsedRequired : parsedRequired[j].kind = "uuid"}}
  IN IF \E i \in DOMAIN parsedRequired : parsedRequired[i].kind = "any" THEN TRUE
     ELSE \E i \in DOMAIN members : MemberMatches(members[i], requiredPhones, requiredUuids)

\* the decision from a group list with line 193 storing "allowed" for a
\* group that is not found
GateDecisionGrantsUnknown(groups, groupId, requiredNumbers) ==
  LET at == FindGroupExactFirst(groups, groupId)
  IN IF at = 0 THEN TRUE ELSE DecideMembership(groups[at], requiredNumbers)

\* lines 186-229: the decision from a group list (not found -> false)
GateDecision(groups, groupId, requiredNumbers) ==
  LET at == FindGroupExactFirst(groups, groupId)
  IN IF at = 0 THEN FALSE ELSE DecideMembership(groups[at], requiredNumbers)

\* ------------------------------------------------ outcomes of a call
\* a returned boolean (gate), a returned id (resolver) or a thrown error
NoId == <<>>
RetBool(b) == [kind |-> "bool", bool |-> b, id |-> NoId, count |-> 0]
RetId(id) == [kind |-> "id", bool |-> FALSE, id |-> id, count |-> 0]
\* the transport error of signalRpcRequest, propagated unchanged
ThrowTransport == [kind |-> "transport", bool |-> FALSE, id |-> NoId, count |-> 0]
\* "Signal group not found: ... Known groups: ${groups.length}"
ThrowNotFound(known) == [kind |-> "notFound", bool |-> FALSE, id |-> NoId, count |-> known]
\* "... is ambiguous: ${matches.length} groups match case-insensitively"
ThrowAmbiguous(n) == [kind |-> "ambiguous", bool |-> FALSE, id |-> NoId, count |-> n]
NoOutcome == [kind |-> "none", bool |-> FALSE, id |-> NoId, count |-> 0]

\* ------------------------------------------ the resolver's computation
\* the match on the fetched list returning the id it was asked for in place
\* of the id stored (lines 126 and 134)
ResolveEchoesQuery(groups, groupId) ==
  LET exact == {i \in DOMAIN groups : groups[i].id = groupId}
      lowered == ToLower(groupId)
      IsMatch(g) == ToLower(g.id) = lowered
      matches == SelectSeq(groups, IsMatch)
  IN IF exact # {} THEN RetId(groupId)
     ELSE IF Len(matches) = 1 THEN RetId(groupId)
     ELSE IF Len(matches) = 0 THEN ThrowNotFound(Len(groups))
     ELSE ThrowAmbiguous(Len(matches))

\* the match on the fetched list taking the first case-insensitive match, as
\* the gate does, in place of lines 142-146
ResolveFirstMatch(groups, groupId) ==
  LET exact == {i \in DOMAIN groups : groups[i].id = groupId}
      lowered == ToLower(groupId)
      IsMatch(g) == ToLower(g.id) = lowered
      matches == SelectSeq(groups, IsMatch)
  IN IF exact # {} THEN RetId(groups[MinIndex(exact)].id)
     ELSE IF Len(matches) >= 1 THEN RetId(matches[1].id)
     ELSE ThrowNotFound(Len(groups))

\* the match on the fetched list with the case-insensitive count taken
\* before the exact comparison: two matches are ambiguous even when one of
\* them is the query itself
ResolveCountsFirst(groups, groupId) ==
  LET exact == {i \in DOMAIN groups : groups[i].id = groupId}
      lowered == ToLower(groupId)
      IsMatch(g) == ToLower(g.id) = lowered
      matches == SelectSeq(groups, IsMatch)
  IN IF Len(matches) >= 2 THEN ThrowAmbiguous(Len(matches))
     ELSE IF exact # {} THEN RetId(groups[MinIndex(exact)].id)
     ELSE IF Len(matches) = 1 THEN RetId(matches[1].id)
     ELSE ThrowNotFound(Len(groups))

\* lines 123-146: the match on the freshly fetched list
ResolveInGroups(groups, groupId) ==
  LET exact == {i \in DOMAIN groups : groups[i].id = groupId}
      lowered == ToLower(groupId)
      IsMatch(g) == ToLower(g.id) = lowered
      matches == SelectSeq(groups, IsMatch)
  IN IF exact # {} THEN RetId(groups[MinIndex(exact)].id)
     ELSE IF Len(matches) = 1 THEN RetId(matches[1].id)
     ELSE IF Len(matches) = 0 THEN ThrowNotFound(Len(groups))
     ELSE ThrowAmbiguous(Len(matches))

\* ------------------------------------------------------- the inputs
\* base64 group ids: the canonical "Ab", the same id lower-cased by the host's
\* session keys, the same letters in another case, and an unrelated group
IdAb == <<"A", "b">>
IdLower == <<"a", "b">>
IdUpper == <<"A", "B">>
IdCd == <<"c", "d">>
\* the ids the host passes to the gate, the resolver and the invalidation
QueryIds == {IdAb, IdLower, IdCd}

PhoneA == <<"+", "1", "5">>
PhoneANoPlus == <<"1", "5">>
PhoneZ == <<"+", "1", "9">>
UuidOne == <<"u", "-", "1">>
UuidTwo == <<"u", "-", "2">>
Alice == Member(Some(PhoneA), Some(UuidOne))
Bob == Member(Undefined, Some(UuidTwo))
Carol == Member(Some(PhoneANoPlus), Undefined)

\* what the daemon may hold: the group with the required member, the same
\* group after the member left, two ids differing only in case (one of them
\* all lower-case in the second list), a group without a members array, and
\* no groups at all
DirWith == <<Group(IdAb, <<Bob, Alice>>), Group(IdCd, <<Carol>>)>>
DirWithout == <<Group(IdAb, <<Bob>>)>>
DirTwoCases == <<Group(IdUpper, <<Bob>>), Group(IdAb, <<Alice>>), Group(IdCd, <<Carol>>)>>
DirLowerTwin == <<Group(IdAb, <<Alice>>), Group(IdLower, <<Bob>>)>>
DirNoMembers == <<GroupNoMembers(IdAb)>>
DirEmpty == <<>>
Directories == {DirWith, DirWithout, DirTwoCases, DirLowerTwin, DirNoMembers, DirEmpty}

\* the requirement lists (groupRequireOneOf) the host passes
ReqNone == <<>>
ReqPhone == <<PhoneA>>
ReqUuidOrOther == <<PhoneZ, UuidPrefix \o UuidTwo>>
ReqWildcard == <<PhoneZ, Star>>
ReqUnparsable == <<UuidPrefix>>
ReqMixed == <<UuidPrefix, PhoneA, <<"x">>>>
Requirements == {ReqNone, ReqPhone, ReqUuidOrOther, ReqWildcard, ReqUnparsable, ReqMixed}

\* the UUIDs of the tests, in canonical form
UuidTarget ==
  <<"1", "2", "3", "e", "4", "5", "6", "7", "-", "e", "8", "9", "b", "-", "1", "2",
    "d", "3", "-", "a", "4", "5", "6", "-", "4", "2", "6", "6", "1", "4", "1", "7",
    "4", "0", "0", "0">>
UuidMember ==
  <<"a", "1", "b", "2", "c", "3", "d", "4", "-", "e", "5", "f", "6", "-", "7", "8",
    "9", "0", "-", "a", "b", "c", "d", "-", "e", "f", "1", "2", "3", "4", "5", "6",
    "7", "8", "9", "0">>
UuidBeef ==
  <<"d", "e", "a", "d", "b", "e", "e", "f", "-", "0", "0", "0", "0", "-", "1", "1",
    "1", "1", "-", "2", "2", "2", "2", "-", "3", "3", "3", "3", "3", "3", "3", "3",
    "3", "3", "3", "3">>
UuidDigits ==
  <<"1", "1", "1", "1", "1", "1", "1", "1", "-", "2", "2", "2", "2", "-", "3", "3",
    "3", "3", "-", "4", "4", "4", "4", "-", "5", "5", "5", "5", "5", "5", "5", "5",
    "5", "5", "5", "5">>
UuidBodies == {UuidTarget, UuidMember, UuidBeef, UuidDigits}
\* the ways a UUID is written: its letters in lower, upper or mixed case,
\* with or without its hyphens, after no prefix, uuid: or signal:uuid:
ToUpperChar(c) ==
  CASE c = "a" -> "A"
    [] c = "b" -> "B"
    [] c = "c" -> "C"
    [] c = "d" -> "D"
    [] c = "e" -> "E"
    [] c = "f" -> "F"
    [] OTHER -> c
LetterCases == {"lower", "upper", "mixed"}
InCase(u, case) ==
  [i \in DOMAIN u |->
     IF case = "upper" \/ (case = "mixed" /\ i % 2 = 1) THEN ToUpperChar(u[i]) ELSE u[i]]
UuidForms == {"hyphenated", "compact"}
IsNoHyphen(c) == c # "-"
InForm(u, form) == IF form = "compact" THEN SelectSeq(u, IsNoHyphen) ELSE u
UuidPrefixes == {<<>>, UuidPrefix, SignalPrefix \o UuidPrefix}
UuidTargets ==
  {pre \o InForm(InCase(u, c), f) :
     pre \in UuidPrefixes, u \in UuidBodies, c \in LetterCases, f \in UuidForms}
\* targets that are no UUIDs: group ids, a phone number, a body that is no
\* UUID, the empty target
OtherTargets ==
  {GroupPrefix \o IdUpper, SignalPrefix \o GroupPrefix \o IdAb, PhoneA, PhoneANoPlus,
   UuidPrefix \o IdCd, SignalPrefix, <<>>}
\* opaque group ids: base64 text in either letter case with "+", "/" and
\* "=", and ids that begin like another kind of target
IdBase64 == <<"D", "b", "+", "C", "/", "e", "=">>
GroupBodies ==
  {IdAb, IdLower, IdUpper, IdCd, IdBase64, UuidPrefix \o IdAb, GroupPrefix \o IdUpper,
   SignalPrefix \o IdAb, UuidDigits, PhoneA}
GroupTargetPrefixes == {<<>>, SignalPrefix}
GroupTargets == {pre \o GroupPrefix \o id : pre \in GroupTargetPrefixes, id \in GroupBodies}
\* bodies that are no UUIDs: nothing, text, 31 hex digits, 33 hex digits, a
\* hyphen out of place, a letter that is no hex digit
NotUuid == <<"n", "o", "t", "-", "a", "-", "u", "u", "i", "d">>
NotUuidBodies ==
  {<<>>, NotUuid, IdCd,
   SubSeq(InForm(UuidTarget, "compact"), 1, UuidHexDigits - 1),
   InForm(UuidTarget, "compact") \o <<"0">>,
   <<"-">> \o SubSeq(UuidTarget, 1, Len(UuidTarget) - 1),
   <<"g">> \o SubSeq(UuidMember, 2, Len(UuidMember))}
BadUuidTargets == {pre \o UuidPrefix \o b : pre \in GroupTargetPrefixes, b \in NotUuidBodies}
\* bare UUIDs after signal:
SignalBareTargets ==
  {SignalPrefix \o InForm(InCase(u, c), f) :
     u \in UuidBodies, c \in LetterCases, f \in UuidForms}
Targets ==
  UuidTargets \cup SignalBareTargets \cup GroupTargets \cup BadUuidTargets \cup OtherTargets

BaseUrl == <<"h">>
AccountOne == <<"+", "1">>
\* the options bag { baseUrl, account? }
Opts(account) == [baseUrl |-> BaseUrl, account |-> account]
AllOpts == {Opts(Some(AccountOne)), Opts(Undefined)}
\* what the host that handles one event at a time passes and meets
HostOpts == {Opts(Some(AccountOne))}
HostIds == {IdAb, IdCd}
HostRequirements == {ReqNone, ReqPhone, ReqWildcard}
HostDirectories == {DirWith, DirWithout}

\* ---------------------------------------------------------- the state
VARIABLES
  now,              \* Date.now()
  advances,         \* how often the clock advanced
  daemon,           \* the group list signal-cli holds
  cachedGroups,     \* let cachedGroups: ListGroupsResult | null
  cachedAt,         \* let cachedAt
  cacheAccountKey,  \* let cacheAccountKey
  membershipCache,  \* const membershipCache: Map<string, {allowed, cachedAt}>
  calls,            \* the logical calls in progress, by execution context
  started,          \* how many calls were started
  prev,             \* the call that returned last, while a repeat of it would
                    \* fall within the decision TTL and no invalidation ran
  awaiting,         \* ids invalidated and not passed to the gate since
  droppedTrue,      \* those of them whose invalidation deleted a decision "allowed"
  cleared,          \* all groups were invalidated and the gate has not been
                    \* asked since
  refetched,        \* while the gate is awaited: the snapshot was written
                    \* since the last invalidation
  changed,          \* while the gate is awaited: the daemon's list changed
                    \* since the last invalidation
  staleSnapshot,    \* the ids invalidated after the daemon gave the answer
                    \* that is stored as the snapshot
  staleDecisions,   \* the keys of the decisions computed from an answer the
                    \* daemon gave before the group of the key was invalidated
  snapshotOrigin,   \* the call the snapshot stems from: when it started and
                    \* for which options its request was issued
  decisionOrigin,   \* the same for the list each stored decision was computed from
  dispatched,       \* the host: the numbers of the messages dispatched to the
                    \* session, in the order of dispatch
  verdicts,         \* the host: what the check of each handled message returned
  target,           \* the messaging target handed to the normalizer
  normalized,       \* its normal form, once computed
  classified,       \* whether it looks like a target id, once asked
  standalone,       \* the standalone resolver's module state (lines 290-292):
                    \* its own cachedGroups, cachedAt and cacheAccountKey
  twin              \* the call of the standalone resolver in progress

caches == <<cachedGroups, cachedAt, cacheAccountKey, membershipCache>>
history == <<prev, awaiting, droppedTrue, cleared, refetched, changed, staleSnapshot, snapshotOrigin,
            staleDecisions, decisionOrigin>>
host == <<dispatched, verdicts>>
second == <<standalone, twin>>
\* what lies beside the gate and its caches
aside == <<target, normalized, classified, standalone, twin>>
NotAsked == [def |-> FALSE, val |-> FALSE]
vars == <<now, advances, daemon, cachedGroups, cachedAt, cacheAccountKey,
          membershipCache, calls, started, prev, awaiting, droppedTrue, cleared, refetched,
          changed, staleSnapshot, snapshotOrigin, staleDecisions, decisionOrigin, dispatched, verdicts, target,
          normalized, classified, standalone, twin>>

Procs == 1..NProcs
\* the host that handles one event at a time uses one execution context
SerialProcs == {1}
\* the execution contexts of the behaviour at hand
Live == DOMAIN calls

NoResp == [status |-> "none", items |-> <<>>]
NoEntry == [def |-> FALSE, allowed |-> FALSE, cachedAt |-> 0]
\* no call: nothing stored stems from a request yet
NoOrigin == [def |-> FALSE, at |-> 0, opts |-> Opts(Undefined)]
OriginOf(c) == [def |-> TRUE, at |-> c.now, opts |-> c.opts]
NoPrev ==
  [is |-> FALSE, fn |-> "none", groupId |-> <<>>, requiredNumbers |-> <<>>,
   opts |-> Opts(Undefined), now |-> 0, decidedAt |-> 0, rpcs |-> 0,
   decisionHit |-> FALSE, snapshotHit |-> FALSE, outcome |-> NoOutcome]
Idle ==
  [pc |-> "idle", fn |-> "none", groupId |-> <<>>, requiredNumbers |-> <<>>,
   opts |-> Opts(Undefined), now |-> 0, accountKey |-> <<>>, forceFresh |-> FALSE,
   cached |-> NoEntry, resp |-> NoResp, groups |-> <<>>, outcome |-> NoOutcome,
   \* what the call met and did, recorded for the properties
   rpcs |-> 0, decisionHit |-> FALSE, snapshotHit |-> FALSE,
   firstAfterInval |-> FALSE, firstAfterClear |-> FALSE, allowedBefore |-> FALSE,
   refetchedAtStart |-> FALSE,
   changedAtStart |-> FALSE, overtakenBy |-> {}, usedStale |-> FALSE,
   overlapped |-> FALSE, origin |-> NoOrigin,
   repeats |-> NoPrev]

\* the standalone resolver's module state at load (lines 290-292)
NoSnapshot ==
  [cachedGroups |-> [def |-> FALSE, val |-> <<>>], cachedAt |-> 0, cacheAccountKey |-> <<>>]
\* no call of the standalone resolver
NoTwin ==
  [pc |-> "idle", groupId |-> <<>>, opts |-> Opts(Undefined), now |-> 0,
   accountKey |-> <<>>, resp |-> NoResp, groups |-> <<>>, outcome |-> NoOutcome,
   rpcs |-> 0]

Init ==
  /\ now = StartTime
  /\ advances = 0
  /\ daemon \in HostDirectories
  /\ cachedGroups = [def |-> FALSE, val |-> <<>>]
  /\ cachedAt = 0
  /\ cacheAccountKey = <<>>
  /\ membershipCache = <<>>
  /\ calls = [p \in SerialProcs |-> Idle]
  /\ started = 0
  /\ prev = NoPrev
  /\ awaiting = {}
  /\ droppedTrue = {}
  /\ cleared = FALSE
  /\ refetched = FALSE
  /\ changed = FALSE
  /\ staleSnapshot = {}
  /\ staleDecisions = {}
  /\ snapshotOrigin = NoOrigin
  /\ decisionOrigin = <<>>
  /\ dispatched = <<>>
  /\ verdicts = <<>>
  /\ target = <<>>
  /\ normalized = Undefined
  /\ classified = NotAsked
  /\ standalone = NoSnapshot
  /\ twin = NoTwin

\* Map.prototype.set
MapSet(map, key, value) ==
  [k \in (DOMAIN map) \cup {key} |-> IF k = key THEN value ELSE map[k]]

\* Map.prototype.get, undefined as NoEntry
MapGet(map, key) ==
  IF key \in DOMAIN map
  THEN [def |-> TRUE, allowed |-> map[key].allowed, cachedAt |-> map[key].cachedAt]
  ELSE NoEntry

\* the test of lines 78-83 and 113 without the comparison of the keys
SnapshotFreshAnyKey(accountKey, at) ==
  /\ cachedGroups.def
  /\ at - cachedAt < GROUP_ID_CACHE_TTL_MS

\* the test of lines 78-83 and 113 with the age compared by <=
SnapshotFreshInclusive(accountKey, at) ==
  /\ cachedGroups.def
  /\ cacheAccountKey = accountKey
  /\ at - cachedAt <= GROUP_ID_CACHE_TTL_MS

\* lines 78-83: the snapshot is present, of this key and younger than its TTL
SnapshotFresh(accountKey, at) ==
  /\ cachedGroups.def
  /\ cacheAccountKey = accountKey
  /\ at - cachedAt < GROUP_ID_CACHE_TTL_MS

\* the comparison of line 179 turned around: an entry counts once it is old
DecisionFreshInverted(cached, at) ==
  /\ cached.def
  /\ at - cached.cachedAt > MEMBERSHIP_CACHE_TTL_MS

\* the comparison of line 179 by <=: an entry still counts at its TTL
DecisionFreshInclusive(cached, at) ==
  /\ cached.def
  /\ at - cached.cachedAt <= MEMBERSHIP_CACHE_TTL_MS

\* the comparison of line 179 with the TTL of the snapshot
DecisionFreshLongTtl(cached, at) ==
  /\ cached.def
  /\ at - cached.cachedAt < GROUP_ID_CACHE_TTL_MS

\* line 179: the decision found is younger than its TTL
DecisionFresh(cached, at) ==
  /\ cached.def
  /\ at - cached.cachedAt < MEMBERSHIP_CACHE_TTL_MS

\* the result without the test of line 62
ListGroupsResultUnchecked(resp) == resp.items

\* Array.isArray(result) ? result : []
ListGroupsResult(resp) == IF resp.status = "array" THEN resp.items ELSE <<>>

\* the call that returned last, when this call has the same arguments
RepeatOf(fn, groupId, requiredNumbers, opts) ==
  IF /\ prev.is /\ prev.fn = fn /\ prev.groupId = groupId
     /\ prev.requiredNumbers = requiredNumbers /\ prev.opts = opts
  THEN prev ELSE NoPrev

\* the test of line 169 off by one: a list of one entry counts as none
NoRequirementOffByOne(requiredNumbers) == Len(requiredNumbers) = 1

\* line 169: requiredNumbers.length === 0
NoRequirement(requiredNumbers) == Len(requiredNumbers) = 0

\* the answer from a fresh entry where the stored boolean stands for the
\* lists without the wildcard only
CachedDecisionButWildcard(cached, requiredNumbers) ==
  cached.allowed \/ \E i \in DOMAIN requiredNumbers : requiredNumbers[i] = Star

\* line 180: return cached.allowed, whatever the list of this call
CachedDecision(cached, requiredNumbers) == cached.allowed

\* a call returns or throws
Complete(p, c, outcome) ==
  calls' = [calls EXCEPT ![p] = [c EXCEPT !.pc = "done", !.outcome = outcome]]

\* checkGroupHasRequiredMember up to its first await (lines 169-184, 75-87)
GateStart(p, groupId, requiredNumbers, opts) ==
  /\ calls[p].pc = "idle"
  /\ started' = started + 1
  /\ UNCHANGED <<host, aside, now, advances, daemon, caches, prev, staleSnapshot,
                 snapshotOrigin, staleDecisions, decisionOrigin>>
  /\ LET accountKey == buildAccountKey(opts.baseUrl, opts.account)
         cacheKey == buildCacheKey(accountKey, groupId)
         cached == MapGet(membershipCache, cacheKey)
         c == [Idle EXCEPT !.fn = "gate", !.groupId = groupId,
                 !.requiredNumbers = requiredNumbers, !.opts = opts, !.now = now,
                 !.accountKey = accountKey,
                 !.repeats = RepeatOf("gate", groupId, requiredNumbers, opts)]
     IN IF NoRequirement(requiredNumbers)
          THEN /\ Complete(p, c, RetBool(TRUE))
               /\ UNCHANGED <<awaiting, droppedTrue, cleared, refetched, changed>>
          ELSE LET d == [c EXCEPT !.cached = cached,
                                  !.firstAfterInval = (groupId \in awaiting),
                                  !.firstAfterClear = cleared,
                                  !.allowedBefore = (groupId \in droppedTrue),
                                  !.refetchedAtStart = refetched,
                                  !.changedAtStart = changed]
               IN /\ awaiting' = awaiting \ {groupId}
                  /\ droppedTrue' = droppedTrue \ {groupId}
                  /\ cleared' = FALSE
                  /\ refetched' = (refetched /\ awaiting' # {})
                  /\ changed' = (changed /\ awaiting' # {})
                  /\ IF DecisionFresh(cached, now)
                       THEN Complete(p, [d EXCEPT !.decisionHit = TRUE,
                                                  !.usedStale = (cacheKey \in staleDecisions),
                                                  !.origin = decisionOrigin[cacheKey]],
                                     RetBool(CachedDecision(cached, requiredNumbers)))
                     ELSE IF SnapshotFresh(accountKey, now)
                       THEN calls' = [calls EXCEPT ![p] =
                                [d EXCEPT !.pc = "resume", !.snapshotHit = TRUE,
                                          !.groups = cachedGroups.val,
                                          !.overtakenBy = staleSnapshot,
                                          !.usedStale = (groupId \in staleSnapshot),
                                          !.origin = snapshotOrigin]]
                     ELSE calls' = [calls EXCEPT ![p] = [d EXCEPT !.pc = "rpc", !.rpcs = 1]]

\* resolveSignalGroupId up to its first await (lines 110-121, 75-87)
ResolveStart(p, groupId, opts) ==
  /\ calls[p].pc = "idle"
  /\ started' = started + 1
  /\ UNCHANGED <<host, aside, now, advances, daemon, caches, history>>
  /\ LET accountKey == buildAccountKey(opts.baseUrl, opts.account)
         c == [Idle EXCEPT !.fn = "resolve", !.groupId = groupId, !.opts = opts,
                 !.now = now, !.accountKey = accountKey,
                 !.repeats = RepeatOf("resolve", groupId, <<>>, opts)]
         exact == IF SnapshotFresh(accountKey, now)
                  THEN {i \in DOMAIN cachedGroups.val : cachedGroups.val[i].id = groupId}
                  ELSE {}
     IN IF exact # {}
          THEN Complete(p, [c EXCEPT !.snapshotHit = TRUE, !.groups = cachedGroups.val,
                                     !.origin = snapshotOrigin],
                        RetId(cachedGroups.val[MinIndex(exact)].id))
          ELSE calls' = [calls EXCEPT ![p] =
                  [c EXCEPT !.pc = "rpc", !.rpcs = 1, !.forceFresh = TRUE]]

\* the daemon answers the listGroups request in flight: with its list, with
\* something that is no array, or not at all (daemon error, timeout)
RpcServe(p, status) ==
  /\ calls[p].pc = "rpc"
  /\ calls[p].resp.status = "none"
  /\ calls' = [calls EXCEPT ![p].resp =
                 \* a reply that is no array holds the daemon's data in another
                 \* shape (an object, say), which line 62 does not look into
                 [status |-> status, items |-> IF status = "error" THEN <<>> ELSE daemon]]
  /\ UNCHANGED <<host, aside, now, advances, daemon, caches, started, history>>

\* the calls after call p got its list: p goes on, and the calls still
\* suspended at their own request have been overlapped by p
Resumed(p, groups) ==
  [q \in Live |->
     IF q = p THEN [calls[p] EXCEPT !.pc = "resume", !.groups = groups,
                                    !.origin = OriginOf(calls[p])]
     ELSE IF calls[q].pc = "rpc" THEN [calls[q] EXCEPT !.overlapped = TRUE]
     ELSE calls[q]]

\* the arrival of the answer where a snapshot written meanwhile by another
\* call is kept (first writer wins)
RpcReturnKeepsNewer(p) ==
  /\ calls[p].pc = "rpc"
  /\ calls[p].resp.status # "none"
  /\ UNCHANGED <<host, aside, now, advances, daemon, membershipCache, started, prev, awaiting,
                 droppedTrue, cleared, changed, staleDecisions, decisionOrigin>>
  /\ IF calls[p].resp.status = "error"
       THEN /\ Complete(p, calls[p], ThrowTransport)
            /\ UNCHANGED <<cachedGroups, cachedAt, cacheAccountKey, refetched,
                           staleSnapshot, snapshotOrigin>>
       ELSE LET groups == ListGroupsResult(calls[p].resp)
            IN /\ IF calls[p].overlapped /\ cachedAt # 0
                    THEN UNCHANGED <<cachedGroups, cachedAt, cacheAccountKey, refetched,
                                     staleSnapshot, snapshotOrigin>>
                    ELSE /\ cachedGroups' = [def |-> TRUE, val |-> groups]
                         /\ cachedAt' = calls[p].now
                         /\ cacheAccountKey' = calls[p].accountKey
                         /\ refetched' = (awaiting # {} \/ cleared)
                         /\ staleSnapshot' = calls[p].overtakenBy
                         /\ snapshotOrigin' = OriginOf(calls[p])
               /\ calls' = Resumed(p, groups)

\* the arrival of the answer with a failed request read as an empty list, as
\* if listGroups caught the error of line 58
RpcReturnSwallows(p) ==
  /\ calls[p].pc = "rpc"
  /\ calls[p].resp.status # "none"
  /\ UNCHANGED <<host, aside, now, advances, daemon, membershipCache, started, prev, awaiting,
                 droppedTrue, cleared, changed, staleDecisions, decisionOrigin>>
  /\ LET groups == ListGroupsResult(calls[p].resp)
     IN /\ cachedGroups' = [def |-> TRUE, val |-> groups]
        /\ cachedAt' = calls[p].now
        /\ cacheAccountKey' = calls[p].accountKey
        /\ refetched' = (awaiting # {} \/ cleared)
        /\ staleSnapshot' = calls[p].overtakenBy
        /\ snapshotOrigin' = OriginOf(calls[p])
        /\ calls' = Resumed(p, groups)

\* the arrival of the answer where a failed request is issued once more
RpcReturnRetries(p) ==
  /\ calls[p].pc = "rpc"
  /\ calls[p].resp.status # "none"
  /\ UNCHANGED <<host, aside, now, advances, daemon, membershipCache, started, prev, awaiting,
                 droppedTrue, cleared, changed, staleDecisions, decisionOrigin>>
  /\ IF calls[p].resp.status = "error"
       THEN /\ IF calls[p].rpcs = 1
                 THEN calls' = [calls EXCEPT ![p].resp = NoResp, ![p].rpcs = 2]
                 ELSE Complete(p, calls[p], ThrowTransport)
            /\ UNCHANGED <<cachedGroups, cachedAt, cacheAccountKey, refetched,
                           staleSnapshot, snapshotOrigin>>
       ELSE LET groups == ListGroupsResult(calls[p].resp)
            IN /\ cachedGroups' = [def |-> TRUE, val |-> groups]
               /\ cachedAt' = calls[p].now
               /\ cacheAccountKey' = calls[p].accountKey
               /\ refetched' = (awaiting # {} \/ cleared)
               /\ staleSnapshot' = calls[p].overtakenBy
               /\ snapshotOrigin' = OriginOf(calls[p])
               /\ calls' = Resumed(p, groups)

\* the arrival of the answer where storing a snapshot discards the
\* decisions taken from the snapshot it replaces
RpcReturnDropsDecisions(p) ==
  /\ calls[p].pc = "rpc"
  /\ calls[p].resp.status # "none"
  /\ UNCHANGED <<host, aside, now, advances, daemon, started, prev, awaiting,
                 droppedTrue, cleared, changed, staleDecisions, decisionOrigin>>
  /\ IF calls[p].resp.status = "error"
       THEN /\ Complete(p, calls[p], ThrowTransport)
            /\ UNCHANGED <<cachedGroups, cachedAt, cacheAccountKey, membershipCache,
                           refetched, staleSnapshot, snapshotOrigin>>
       ELSE LET groups == ListGroupsResult(calls[p].resp)
            IN /\ cachedGroups' = [def |-> TRUE, val |-> groups]
               /\ cachedAt' = calls[p].now
               /\ cacheAccountKey' = calls[p].accountKey
               /\ membershipCache' = <<>>
               /\ refetched' = (awaiting # {} \/ cleared)
               /\ staleSnapshot' = calls[p].overtakenBy
               /\ snapshotOrigin' = OriginOf(calls[p])
               /\ calls' = Resumed(p, groups)

\* the answer arrives: listGroups returns and getCachedGroups stores the
\* snapshot (lines 58-62, 87-91), or the error propagates to the caller
RpcReturn(p) ==
  /\ calls[p].pc = "rpc"
  /\ calls[p].resp.status # "none"
  /\ UNCHANGED <<host, aside, now, advances, daemon, membershipCache, started, prev, awaiting,
                 droppedTrue, cleared, changed, staleDecisions, decisionOrigin>>
  /\ IF calls[p].resp.status = "error"
       THEN /\ Complete(p, calls[p], ThrowTransport)
            /\ UNCHANGED <<cachedGroups, cachedAt, cacheAccountKey, refetched,
                           staleSnapshot, snapshotOrigin>>
       ELSE LET groups == ListGroupsResult(calls[p].resp)
            IN /\ cachedGroups' = [def |-> TRUE, val |-> groups]
               /\ cachedAt' = calls[p].now
               /\ cacheAccountKey' = calls[p].accountKey
               /\ refetched' = (awaiting # {} \/ cleared)
               /\ staleSnapshot' = calls[p].overtakenBy
               /\ snapshotOrigin' = OriginOf(calls[p])
               /\ calls' = Resumed(p, groups)

\* checkGroupHasRequiredMember after the await (lines 186-229)
GateResume(p) ==
  /\ calls[p].pc = "resume"
  /\ calls[p].fn = "gate"
  /\ LET c == calls[p]
         cacheKey == buildCacheKey(c.accountKey, c.groupId)
         allowed == GateDecision(c.groups, c.groupId, c.requiredNumbers)
     IN /\ membershipCache' =
             MapSet(membershipCache, cacheKey, [allowed |-> allowed, cachedAt |-> c.now])
        /\ staleDecisions' = IF c.groupId \in c.overtakenBy
                              THEN staleDecisions \cup {cacheKey}
                              ELSE staleDecisions \ {cacheKey}
        /\ decisionOrigin' = MapSet(decisionOrigin, cacheKey, c.origin)
        /\ Complete(p, c, RetBool(allowed))
  /\ UNCHANGED <<host, aside, now, advances, daemon, cachedGroups, cachedAt, cacheAccountKey,
                 started, prev, awaiting, droppedTrue, cleared, refetched, changed,
                 staleSnapshot, snapshotOrigin>>

\* resolveSignalGroupId after the await (lines 123-146)
ResolveResume(p) ==
  /\ calls[p].pc = "resume"
  /\ calls[p].fn = "resolve"
  /\ Complete(p, calls[p], ResolveInGroups(calls[p].groups, calls[p].groupId))
  /\ UNCHANGED <<host, aside, now, advances, daemon, caches, started, history>>

\* the promise of a call settles at its caller
Settle(p) ==
  /\ calls[p].pc = "done"
  /\ calls' = [calls EXCEPT ![p] = Idle]
  /\ prev' = [is |-> TRUE, fn |-> calls[p].fn, groupId |-> calls[p].groupId,
              requiredNumbers |-> calls[p].requiredNumbers, opts |-> calls[p].opts,
              now |-> calls[p].now,
              \* the time stamp of the decision returned: the call's own, or
              \* that of the entry it found
              decidedAt |-> IF calls[p].decisionHit THEN calls[p].cached.cachedAt
                            ELSE calls[p].now,
              rpcs |-> calls[p].rpcs,
              decisionHit |-> calls[p].decisionHit, snapshotHit |-> calls[p].snapshotHit,
              outcome |-> calls[p].outcome]
  /\ UNCHANGED <<aside, now, advances, daemon, caches, started, awaiting, droppedTrue,
                 cleared, refetched, changed, staleSnapshot, snapshotOrigin, staleDecisions, decisionOrigin>>

\* the caller receives the value or the error of a call
Return(p) ==
  /\ Settle(p)
  /\ UNCHANGED host

\* The host's event handler (monitor/event-handler.js) after its await of
\* checkGroupHasRequiredMember for a group message: the message that is being
\* handled is number `started`; a message whose check queued the messages
\* dropped before it and released them with the first allowed one
HostHandleReleasesDropped(p) ==
  /\ Settle(p)
  /\ calls[p].fn = "gate"
  /\ verdicts' = Append(verdicts, calls[p].outcome)
  /\ dispatched' =
       IF calls[p].outcome = RetBool(TRUE)
         THEN dispatched \o
              SelectSeq([i \in 1..started |-> i],
                        LAMBDA i : \A k \in 1..Len(dispatched) : dispatched[k] # i)
         ELSE dispatched

\* the handler dispatching unless the check returned false (fail-open)
HostHandleFailOpen(p) ==
  /\ Settle(p)
  /\ calls[p].fn = "gate"
  /\ verdicts' = Append(verdicts, calls[p].outcome)
  /\ dispatched' =
       IF calls[p].outcome # RetBool(FALSE) THEN Append(dispatched, started)
       ELSE dispatched

\* The host's event handler after its await of checkGroupHasRequiredMember:
\* the message is dispatched to the session if the check returned true, and
\* dropped if it returned false or threw
HostHandle(p) ==
  /\ Settle(p)
  /\ calls[p].fn = "gate"
  /\ verdicts' = Append(verdicts, calls[p].outcome)
  /\ dispatched' =
       IF calls[p].outcome = RetBool(TRUE) THEN Append(dispatched, started)
       ELSE dispatched

\* the test of line 241 on the lower-cased strings: the keys of a group
\* under any spelling of its id
KeyOfGroupAnyCase(key, groupId) == EndsWith(ToLower(key), ToLower(Bar \o groupId))

\* the keys invalidateGroupMembershipCache(groupId) deletes (line 241)
KeyOfGroup(key, groupId) == EndsWith(key, Bar \o groupId)

\* what an invalidation means for the record of the run: the id is awaited
\* at the gate, the calls already answered by the daemon are overtaken, and
\* what stemmed from overtaken calls is gone with the entries and the snapshot
Forget(groupId) ==
  LET ids == IF Truthy(groupId) THEN {groupId.val} ELSE QueryIds
  IN /\ IF Truthy(groupId)
          THEN /\ awaiting' = awaiting \cup {groupId.val}
               /\ droppedTrue' =
                    IF \E k \in DOMAIN membershipCache :
                         KeyOfGroup(k, groupId.val) /\ membershipCache[k].allowed
                    THEN droppedTrue \cup {groupId.val}
                    ELSE droppedTrue \ {groupId.val}
               /\ staleDecisions' = {k \in staleDecisions : ~KeyOfGroup(k, groupId.val)}
          ELSE /\ UNCHANGED <<awaiting, droppedTrue>>
               /\ staleDecisions' = {}
     /\ cleared' = (cleared \/ ~Truthy(groupId))
     /\ refetched' = FALSE
     /\ changed' = FALSE
     /\ prev' = NoPrev
     /\ staleSnapshot' = {}
     /\ snapshotOrigin' = NoOrigin
     /\ decisionOrigin' = [k \in (DOMAIN decisionOrigin) \cap (DOMAIN membershipCache')
                              |-> decisionOrigin[k]]
     /\ calls' = [p \in Live |->
                    IF calls[p].pc = "resume"
                       \/ (calls[p].pc = "rpc" /\ calls[p].resp.status = "array")
                    THEN [calls[p] EXCEPT !.overtakenBy = @ \cup ids]
                    ELSE calls[p]]

\* an invalidation that takes the branch of line 245 whatever its argument
InvalidateEverything(groupId) ==
  /\ membershipCache' = <<>>
  /\ cachedAt' = 0
  /\ Forget(groupId)
  /\ UNCHANGED <<host, aside, now, advances, daemon, cachedGroups, cacheAccountKey, started>>

\* an invalidation without line 250: the snapshot keeps its time stamp
InvalidateKeepsSnapshot(groupId) ==
  /\ IF Truthy(groupId)
       THEN membershipCache' =
              [k \in {k \in DOMAIN membershipCache : ~KeyOfGroup(k, groupId.val)}
                 |-> membershipCache[k]]
       ELSE membershipCache' = <<>>
  /\ Forget(groupId)
  /\ UNCHANGED <<host, aside, now, advances, daemon, cachedGroups, cachedAt, cacheAccountKey, started>>

\* an invalidation without the branch of lines 245-248: without a group id
\* no decision is dropped
InvalidateOnlyNamed(groupId) ==
  /\ IF Truthy(groupId)
       THEN membershipCache' =
              [k \in {k \in DOMAIN membershipCache : ~KeyOfGroup(k, groupId.val)}
                 |-> membershipCache[k]]
       ELSE UNCHANGED membershipCache
  /\ cachedAt' = 0
  /\ Forget(groupId)
  /\ UNCHANGED <<host, aside, now, advances, daemon, cachedGroups, cacheAccountKey, started>>

\* invalidateGroupMembershipCache(groupId?) (lines 237-251)
Invalidate(groupId) ==
  /\ IF Truthy(groupId)
       THEN membershipCache' =
              [k \in {k \in DOMAIN membershipCache : ~KeyOfGroup(k, groupId.val)}
                 |-> membershipCache[k]]
       ELSE membershipCache' = <<>>
  /\ cachedAt' = 0
  /\ Forget(groupId)
  /\ UNCHANGED <<host, aside, now, advances, daemon, cachedGroups, cacheAccountKey, started>>

\* time passes
Advance(d) ==
  /\ advances' = advances + 1
  /\ now' = now + d
  /\ prev' = IF prev.is /\ now' - prev.now < MEMBERSHIP_CACHE_TTL_MS THEN prev ELSE NoPrev
  /\ UNCHANGED <<host, aside, daemon, caches, calls, started, awaiting, droppedTrue, cleared, refetched,
                 staleSnapshot, snapshotOrigin, staleDecisions, decisionOrigin,
                 changed>>

\* the group list changes at the daemon (a member leaves or joins, ...)
DaemonChange(d) ==
  /\ d # daemon
  /\ daemon' = d
  /\ changed' = (awaiting # {} \/ cleared)
  /\ UNCHANGED <<host, aside, now, advances, caches, calls, started, prev, awaiting, droppedTrue,
                 cleared, refetched, staleSnapshot, snapshotOrigin, staleDecisions, decisionOrigin>>

\* no call is suspended at its await
Quiet == \A p \in Live : calls[p].pc = "idle"
\* every result has reached its caller
Returned == \A p \in Live : calls[p].pc # "done"

RpcStatuses == {"array", "nonArray", "error"}
\* the replies of the host's daemon: a list, or a failed request (a reply that
\* is no list is read as the empty list, and is a case of SpecDecide)
HostStatuses == {"array", "error"}
MayStart == Returned /\ started < MaxCalls
MayAdvance == advances < MaxAdvances

\* The host handles one event at a time (spec section 5): a call runs to its
\* end before the next event. A call reads the clock once, at its start, and
\* the daemon's list once, when served, so that time passing or the list
\* changing during a call is time passing or the list changing after it.
Next ==
  \/ \E p \in SerialProcs, g \in HostIds, r \in HostRequirements, o \in HostOpts :
       MayStart /\ GateStart(p, g, r, o)
  \/ \E p \in SerialProcs, g \in HostIds, o \in HostOpts :
       MayStart /\ ResolveStart(p, g, o)
  \/ \E p \in SerialProcs, st \in HostStatuses : Returned /\ RpcServe(p, st)
  \/ \E p \in SerialProcs : Returned /\ RpcReturn(p)
  \/ \E p \in SerialProcs : Returned /\ GateResume(p)
  \/ \E p \in SerialProcs : Returned /\ ResolveResume(p)
  \/ \E p \in SerialProcs : Return(p)
  \/ \E g \in {Undefined} \cup {Some(id) : id \in HostIds} : Quiet /\ Invalidate(g)
  \/ \E d \in Advances : Quiet /\ MayAdvance /\ Advance(d)
  \/ \E d \in HostDirectories : Quiet /\ DaemonChange(d)

Spec == Init /\ [][Next]_vars

\* ---------------------------------------------------------------------
\* Single decisions: a call on any directory, with any id and any
\* requirement list, without invalidation and without the clock advancing.
InitDecide ==
  /\ now = StartTime
  /\ advances = 0
  /\ daemon \in Directories
  /\ cachedGroups = [def |-> FALSE, val |-> <<>>]
  /\ cachedAt = 0
  /\ cacheAccountKey = <<>>
  /\ membershipCache = <<>>
  /\ calls = [p \in SerialProcs |-> Idle]
  /\ started = 0
  /\ prev = NoPrev
  /\ awaiting = {}
  /\ droppedTrue = {}
  /\ cleared = FALSE
  /\ refetched = FALSE
  /\ changed = FALSE
  /\ staleSnapshot = {}
  /\ staleDecisions = {}
  /\ snapshotOrigin = NoOrigin
  /\ decisionOrigin = <<>>
  /\ dispatched = <<>>
  /\ verdicts = <<>>
  /\ target = <<>>
  /\ normalized = Undefined
  /\ classified = NotAsked
  /\ standalone = NoSnapshot
  /\ twin = NoTwin

MayDecide == Returned /\ started < MaxDecideCalls

NextDecide ==
  \/ \E p \in SerialProcs, g \in QueryIds, r \in Requirements, o \in HostOpts :
       MayDecide /\ GateStart(p, g, r, o)
  \/ \E p \in SerialProcs, g \in QueryIds, o \in HostOpts :
       MayDecide /\ ResolveStart(p, g, o)
  \/ \E p \in SerialProcs, st \in RpcStatuses : Returned /\ RpcServe(p, st)
  \/ \E p \in SerialProcs : Returned /\ RpcReturn(p)
  \/ \E p \in SerialProcs : Returned /\ GateResume(p)
  \/ \E p \in SerialProcs : Returned /\ ResolveResume(p)
  \/ \E p \in SerialProcs : Return(p)

SpecDecide == InitDecide /\ [][NextDecide]_vars

\* ---------------------------------------------------------------------
\* Two accounts behind one endpoint: calls of the gate and of the resolver,
\* one at a time, for the one or the other account, with the snapshot
\* ageing beyond its TTL, being marked stale, and the daemon answering with
\* its list, with something that is no list, or not at all.
AccountIds == {IdAb, IdCd}
AccountRequirements == {ReqPhone}

NextAccounts ==
  \/ \E p \in SerialProcs, g \in AccountIds, r \in AccountRequirements, o \in AllOpts :
       MayStart /\ GateStart(p, g, r, o)
  \/ \E p \in SerialProcs, g \in AccountIds, o \in AllOpts :
       MayStart /\ ResolveStart(p, g, o)
  \/ \E p \in SerialProcs, st \in RpcStatuses : Returned /\ RpcServe(p, st)
  \/ \E p \in SerialProcs : Returned /\ RpcReturn(p)
  \/ \E p \in SerialProcs : Returned /\ GateResume(p)
  \/ \E p \in SerialProcs : Returned /\ ResolveResume(p)
  \/ \E p \in SerialProcs : Return(p)
  \/ Quiet /\ Invalidate(Undefined)
  \/ Quiet /\ MayAdvance /\ Advance(GROUP_ID_CACHE_TTL_MS)
  \/ \E d \in HostDirectories : Quiet /\ DaemonChange(d)

SpecAccounts == Init /\ [][NextAccounts]_vars

\* ---------------------------------------------------------------------
\* Overlapping calls: a call is suspended while its request is with the
\* daemon (line 58), and until it is resumed other calls start, the daemon's
\* list changes and the caches are invalidated. What follows the answer
\* (lines 88-90, then the caller's lines up to its return) runs without
\* another operation in between.
ConcIds == {IdAb}
ConcRequirements == {ReqPhone}
\* no continuation is running
Settled == \A p \in Live : calls[p].pc \in {"idle", "rpc"}
\* a call takes the first free slot
FreeSlot(p) == calls[p].pc = "idle" /\ \A q \in Live : q < p => calls[q].pc # "idle"
MayStartConc(p) == Settled /\ started < MaxConcCalls /\ FreeSlot(p)

NextConc ==
  \/ \E p \in Procs, g \in ConcIds, r \in ConcRequirements, o \in HostOpts :
       MayStartConc(p) /\ GateStart(p, g, r, o)
  \/ \E p \in Procs, g \in ConcIds, o \in HostOpts :
       MayStartConc(p) /\ ResolveStart(p, g, o)
  \/ \E p \in Procs, st \in HostStatuses : Settled /\ RpcServe(p, st)
  \/ \E p \in Procs : Settled /\ RpcReturn(p)
  \/ \E p \in Procs : GateResume(p)
  \/ \E p \in Procs : ResolveResume(p)
  \/ \E p \in Procs : Return(p)
  \/ \E id \in ConcIds : Settled /\ Invalidate(Some(id))
  \/ \E d \in HostDirectories : Settled /\ DaemonChange(d)

\* the module state at load, with NProcs execution contexts
InitConc ==
  /\ now = StartTime
  /\ advances = 0
  /\ daemon \in HostDirectories
  /\ cachedGroups = [def |-> FALSE, val |-> <<>>]
  /\ cachedAt = 0
  /\ cacheAccountKey = <<>>
  /\ membershipCache = <<>>
  /\ calls = [p \in Procs |-> Idle]
  /\ started = 0
  /\ prev = NoPrev
  /\ awaiting = {}
  /\ droppedTrue = {}
  /\ cleared = FALSE
  /\ refetched = FALSE
  /\ changed = FALSE
  /\ staleSnapshot = {}
  /\ staleDecisions = {}
  /\ snapshotOrigin = NoOrigin
  /\ decisionOrigin = <<>>
  /\ dispatched = <<>>
  /\ verdicts = <<>>
  /\ target = <<>>
  /\ normalized = Undefined
  /\ classified = NotAsked
  /\ standalone = NoSnapshot
  /\ twin = NoTwin

SpecConc == InitConc /\ [][NextConc]_vars

\* ---------------------------------------------------------------------
\* The host: a stream of group messages of one group, handled one at a
\* time with a non-empty groupRequireOneOf; each message is checked at the
\* gate and dispatched or dropped; group updates invalidate the caches.
HostGroups == {IdAb}
HostRequireOneOf == ReqPhone
MayReceive == Returned /\ started < MaxMessages

NextHost ==
  \/ \E p \in SerialProcs, g \in HostGroups, o \in HostOpts :
       MayReceive /\ GateStart(p, g, HostRequireOneOf, o)
  \/ \E p \in SerialProcs, st \in HostStatuses : Returned /\ RpcServe(p, st)
  \/ \E p \in SerialProcs : Returned /\ RpcReturn(p)
  \/ \E p \in SerialProcs : Returned /\ GateResume(p)
  \/ \E p \in SerialProcs : HostHandle(p)
  \/ \E g \in HostGroups : Quiet /\ Invalidate(Some(g))
  \/ \E d \in Advances : Quiet /\ MayAdvance /\ Advance(d)
  \/ \E d \in HostDirectories : Quiet /\ DaemonChange(d)

SpecHost == Init /\ [][NextHost]_vars

\* ---------------------------------------------------------------------
\* Overlapping calls for two accounts behind one endpoint: the calls of the
\* one and of the other account are suspended at their requests at the same
\* time and overwrite the one snapshot in the order their answers arrive.
IsolationIds == {IdAb}
IsolationRequirements == {ReqPhone}

NextIsolation ==
  \/ \E p \in Procs, g \in IsolationIds, r \in IsolationRequirements, o \in AllOpts :
       MayStartConc(p) /\ GateStart(p, g, r, o)
  \/ \E p \in Procs, g \in IsolationIds, o \in AllOpts :
       MayStartConc(p) /\ ResolveStart(p, g, o)
  \/ \E p \in Procs, st \in HostStatuses : Settled /\ RpcServe(p, st)
  \/ \E p \in Procs : Settled /\ RpcReturn(p)
  \/ \E p \in Procs : GateResume(p)
  \/ \E p \in Procs : ResolveResume(p)
  \/ \E p \in Procs : Return(p)
  \/ \E d \in HostDirectories : Settled /\ DaemonChange(d)

SpecIsolation == InitConc /\ [][NextIsolation]_vars

\* ---------------------------------------------------------------------
\* The two TTLs: the gate asked for one group under two spellings of its id,
\* one call at a time, with the clock advancing in steps that let a decision
\* expire (60 s) while the snapshot it was computed from is still fresh
\* (5 min), and with the caches invalidated for one spelling.
TtlIds == {IdAb, IdLower}
TtlRequirements == {ReqPhone}
TtlAdvances ==
  {MEMBERSHIP_CACHE_TTL_MS \div 2, MEMBERSHIP_CACHE_TTL_MS,
   GROUP_ID_CACHE_TTL_MS - MEMBERSHIP_CACHE_TTL_MS \div 2}
MayAdvanceTtl == advances < MaxTtlAdvances

NextTtl ==
  \/ \E p \in SerialProcs, g \in TtlIds, r \in TtlRequirements, o \in HostOpts :
       MayStart /\ GateStart(p, g, r, o)
  \/ \E p \in SerialProcs, st \in HostStatuses : Returned /\ RpcServe(p, st)
  \/ \E p \in SerialProcs : Returned /\ RpcReturn(p)
  \/ \E p \in SerialProcs : Returned /\ GateResume(p)
  \/ \E p \in SerialProcs : Return(p)
  \/ \E g \in TtlIds : Quiet /\ Invalidate(Some(g))
  \/ \E d \in TtlAdvances : Quiet /\ MayAdvanceTtl /\ Advance(d)
  \/ \E d \in HostDirectories : Quiet /\ DaemonChange(d)

SpecTtl == Init /\ [][NextTtl]_vars

\* ---------------------------------------------------------------------
\* The standalone resolver (lines 270-372): resolveSignalGroupId with its
\* own module state, calling listGroups and writing the snapshot itself.
GROUP_CACHE_TTL_MS == 5 * 60 * 1000
\* `${baseUrl}|${account ?? ""}` (lines 294-296)
buildAccountKeyStandalone(baseUrl, account) ==
  baseUrl \o <<"|">> \o (IF account.def THEN account.val ELSE <<>>)
\* Array.isArray(result) ? result : [] (line 311)
ListGroupsResultStandalone(resp) == IF resp.status = "array" THEN resp.items ELSE <<>>

\* lines 348-371: the match on the list fetched
ResolveInGroupsStandalone(groups, groupId) ==
  LET exact == {i \in DOMAIN groups : groups[i].id = groupId}
      lowered == ToLower(groupId)
      matches == {i \in DOMAIN groups : ToLower(groups[i].id) = lowered}
  IN IF exact # {} THEN RetId(groups[MinIndex(exact)].id)
     ELSE IF Cardinality(matches) = 1 THEN RetId(groups[MinIndex(matches)].id)
     ELSE IF Cardinality(matches) = 0 THEN ThrowNotFound(Len(groups))
     ELSE ThrowAmbiguous(Cardinality(matches))

\* the standalone resolver up to its await (lines 329-342)
StandaloneStart(groupId, opts) ==
  /\ twin.pc = "idle"
  /\ LET accountKey == buildAccountKeyStandalone(opts.baseUrl, opts.account)
         c == [NoTwin EXCEPT !.groupId = groupId, !.opts = opts, !.now = now,
                             !.accountKey = accountKey]
         exact == IF /\ standalone.cachedGroups.def
                     /\ standalone.cacheAccountKey = accountKey
                     /\ now - standalone.cachedAt < GROUP_CACHE_TTL_MS
                  THEN {i \in DOMAIN standalone.cachedGroups.val :
                          standalone.cachedGroups.val[i].id = groupId}
                  ELSE {}
     IN twin' = IF exact # {}
                THEN [c EXCEPT !.pc = "done", !.groups = standalone.cachedGroups.val,
                               !.outcome =
                                 RetId(standalone.cachedGroups.val[MinIndex(exact)].id)]
                ELSE [c EXCEPT !.pc = "rpc", !.rpcs = 1]
  /\ UNCHANGED <<standalone, target, normalized, classified, host, now, advances, daemon,
                 caches, calls, started, history>>

\* the daemon answers the standalone resolver's request
StandaloneServe(resp) ==
  /\ twin.pc = "rpc"
  /\ twin.resp.status = "none"
  /\ resp.status # "none"
  /\ twin' = [twin EXCEPT !.resp = resp]
  /\ UNCHANGED <<standalone, target, normalized, classified, host, now, advances, daemon,
                 caches, calls, started, history>>

\* the arrival of the answer where line 346 is left out: the snapshot
\* keeps the key it had
StandaloneReturnKeepsKey ==
  /\ twin.pc = "rpc"
  /\ twin.resp.status # "none"
  /\ IF twin.resp.status = "error"
       THEN /\ twin' = [twin EXCEPT !.pc = "done", !.outcome = ThrowTransport]
            /\ UNCHANGED standalone
       ELSE LET groups == ListGroupsResultStandalone(twin.resp)
            IN /\ standalone' = [standalone EXCEPT
                                   !.cachedGroups = [def |-> TRUE, val |-> groups],
                                   !.cachedAt = twin.now]
               /\ twin' = [twin EXCEPT !.pc = "done", !.groups = groups,
                                       !.outcome =
                                         ResolveInGroupsStandalone(groups, twin.groupId)]
  /\ UNCHANGED <<target, normalized, classified, host, now, advances, daemon,
                 caches, calls, started, history>>

\* the answer arrives: the error propagates, or the snapshot is written
\* (lines 343-346) and the id matched on the list (348-371)
StandaloneReturn ==
  /\ twin.pc = "rpc"
  /\ twin.resp.status # "none"
  /\ IF twin.resp.status = "error"
       THEN /\ twin' = [twin EXCEPT !.pc = "done", !.outcome = ThrowTransport]
            /\ UNCHANGED standalone
       ELSE LET groups == ListGroupsResultStandalone(twin.resp)
            IN /\ standalone' = [cachedGroups |-> [def |-> TRUE, val |-> groups],
                                 cachedAt |-> twin.now,
                                 cacheAccountKey |-> twin.accountKey]
               /\ twin' = [twin EXCEPT !.pc = "done", !.groups = groups,
                                       !.outcome =
                                         ResolveInGroupsStandalone(groups, twin.groupId)]
  /\ UNCHANGED <<target, normalized, classified, host, now, advances, daemon,
                 caches, calls, started, history>>

\* the caller of the standalone resolver receives the value or the error
StandaloneSettle ==
  /\ twin.pc = "done"
  /\ twin' = NoTwin
  /\ UNCHANGED <<standalone, target, normalized, classified, host, now, advances, daemon,
                 caches, calls, started, history>>

\* The two resolvers side by side: each call of the one (lines 102-147) is
\* followed by a call of the other (322-372) with the same group id and
\* options, at the same time, and with the daemon giving the same answer;
\* between the pairs the clock advances and the daemon's list changes.
TwinIds == QueryIds
TwinDirectories == {DirWith, DirTwoCases, DirEmpty}
TwinQuiet == twin.pc = "idle"
\* the answer the daemon gave the first resolver, or its list when the
\* first resolver did not ask
SameAnswer(p) ==
  IF calls[p].resp.status # "none" THEN calls[p].resp
  ELSE [status |-> "array", items |-> daemon]

NextTwin ==
  \/ \E p \in SerialProcs, g \in TwinIds, o \in AllOpts :
       MayStart /\ TwinQuiet /\ ResolveStart(p, g, o)
  \/ \E p \in SerialProcs, st \in RpcStatuses : Returned /\ RpcServe(p, st)
  \/ \E p \in SerialProcs : Returned /\ RpcReturn(p)
  \/ \E p \in SerialProcs : Returned /\ ResolveResume(p)
  \/ \E p \in SerialProcs :
       calls[p].pc = "done" /\ StandaloneStart(calls[p].groupId, calls[p].opts)
  \/ \E p \in SerialProcs : calls[p].pc = "done" /\ StandaloneServe(SameAnswer(p))
  \/ \E p \in SerialProcs : calls[p].pc = "done" /\ StandaloneReturn
  \/ \E p \in SerialProcs : twin.pc = "done" /\ Return(p)
  \/ Quiet /\ StandaloneSettle
  \/ \E d \in Advances : Quiet /\ TwinQuiet /\ MayAdvance /\ Advance(d)
  \/ \E d \in TwinDirectories : Quiet /\ TwinQuiet /\ DaemonChange(d)

InitTwin ==
  /\ now = StartTime
  /\ advances = 0
  /\ daemon \in TwinDirectories
  /\ cachedGroups = [def |-> FALSE, val |-> <<>>]
  /\ cachedAt = 0
  /\ cacheAccountKey = <<>>
  /\ membershipCache = <<>>
  /\ calls = [p \in SerialProcs |-> Idle]
  /\ started = 0
  /\ prev = NoPrev
  /\ awaiting = {}
  /\ droppedTrue = {}
  /\ cleared = FALSE
  /\ refetched = FALSE
  /\ changed = FALSE
  /\ staleSnapshot = {}
  /\ staleDecisions = {}
  /\ snapshotOrigin = NoOrigin
  /\ decisionOrigin = <<>>
  /\ dispatched = <<>>
  /\ verdicts = <<>>
  /\ target = <<>>
  /\ normalized = Undefined
  /\ classified = NotAsked
  /\ standalone = NoSnapshot
  /\ twin = NoTwin

SpecTwin == InitTwin /\ [][NextTwin]_vars

\* ---------------------------------------------------------------------
\* The normalizer: a pure function, applied to one target of Targets.
InitNormalize ==
  /\ now = StartTime
  /\ advances = 0
  /\ daemon = DirWith
  /\ cachedGroups = [def |-> FALSE, val |-> <<>>]
  /\ cachedAt = 0
  /\ cacheAccountKey = <<>>
  /\ membershipCache = <<>>
  /\ calls = [p \in SerialProcs |-> Idle]
  /\ started = 0
  /\ prev = NoPrev
  /\ awaiting = {}
  /\ droppedTrue = {}
  /\ cleared = FALSE
  /\ refetched = FALSE
  /\ changed = FALSE
  /\ staleSnapshot = {}
  /\ staleDecisions = {}
  /\ snapshotOrigin = NoOrigin
  /\ decisionOrigin = <<>>
  /\ dispatched = <<>>
  /\ verdicts = <<>>
  /\ target \in Targets
  /\ normalized = Undefined
  /\ classified = NotAsked
  /\ standalone = NoSnapshot
  /\ twin = NoTwin

Normalize ==
  /\ ~normalized.def
  /\ normalized' = Some(normalizeSignalMessagingTarget(target))
  /\ UNCHANGED <<second, target, classified, host, now, advances, daemon, caches, calls, started,
                 history>>

Classify ==
  /\ ~classified.def
  /\ classified' = [def |-> TRUE, val |-> looksLikeSignalTargetId(target)]
  /\ UNCHANGED <<second, target, normalized, host, now, advances, daemon, caches, calls, started,
                 history>>

NextNormalize == Normalize \/ Classify

SpecNormalize == InitNormalize /\ [][NextNormalize]_vars

\* =====================================================================
\* Properties
\* =====================================================================
\* a gate call with a requirement that has come to its end
GateDone(c) == c.pc = "done" /\ c.fn = "gate" /\ Len(c.requiredNumbers) > 0

\* the key of the decision of a gate call
KeyOf(c) == buildCacheKey(buildAccountKey(c.opts.baseUrl, c.opts.account), c.groupId)

\* ---------------------------------------------------------------- C1
\* C1, as the specification states it: a gate call that repeats the call
\* returned just before it (same group id, same non-empty requirement list,
\* same options, less than 60 s later, no invalidation in between) makes with
\* it exactly one listGroups request in total and returns the same boolean.
C1_AsStated ==
  \A p \in Live :
    LET c == calls[p]
    IN (GateDone(c) /\ c.repeats.is /\ c.repeats.outcome.kind = "bool")
         => /\ c.repeats.rpcs + c.rpcs = 1
            /\ c.outcome = c.repeats.outcome

\* C1, amended: when the first of the two calls found no fresh decision and
\* returned a boolean, the second call finds the decision the first stored
\* (stamped with the first call's time), returns that boolean and makes no
\* request; the two make exactly one request in total if and only if the first
\* found no fresh snapshot of its account key, and none otherwise.
C1_GateCaching ==
  \A p \in Live :
    LET c == calls[p]
    IN (GateDone(c) /\ c.repeats.is /\ c.repeats.outcome.kind = "bool"
          /\ ~c.repeats.decisionHit)
         => /\ c.decisionHit
            /\ c.rpcs = 0
            /\ c.cached.cachedAt = c.repeats.now
            /\ c.outcome = c.repeats.outcome
            /\ (c.repeats.rpcs + c.rpcs = 1) <=> ~c.repeats.snapshotHit

\* the second call returns, later than the first, the "true" the first fetched
C1_Witness ==
  \E p \in Live :
    LET c == calls[p]
    IN /\ GateDone(c) /\ c.repeats.is /\ ~c.repeats.decisionHit
       /\ c.repeats.rpcs = 1 /\ c.rpcs = 0
       /\ c.now > c.repeats.now
       /\ c.outcome = RetBool(TRUE)

\* ---------------------------------------------------------------- C2
\* invalidateGroupMembershipCache(g) leaves the decisions of every other group
\* id as they are: same presence, same allowed value, same time stamp
C2_OthersUntouched ==
  \A g \in HostIds :
    Invalidate(Some(g)) =>
      \A h \in QueryIds \ {g}, o \in AllOpts :
        LET k == buildCacheKey(buildAccountKey(o.baseUrl, o.account), h)
        IN /\ (k \in DOMAIN membershipCache') = (k \in DOMAIN membershipCache)
           /\ k \in DOMAIN membershipCache => membershipCache'[k] = membershipCache[k]

\* the first gate call for a group id since its invalidation makes a request
C2_NextCallFetches ==
  \A p \in Live :
    LET c == calls[p]
    IN (c.pc # "idle" /\ c.fn = "gate" /\ c.firstAfterInval) => c.rpcs = 1

\* the first gate call for a group id since its invalidation uses no decision
\* stored before, and reads the directory from a request made after the
\* invalidation: its own, unless another call has stored a snapshot since
C2_NextCallReadsAfresh ==
  \A p \in Live :
    LET c == calls[p]
    IN (c.pc # "idle" /\ c.fn = "gate" /\ c.firstAfterInval)
         => /\ ~c.decisionHit
            /\ \/ c.rpcs = 1
               \/ c.snapshotHit /\ c.refetchedAtStart

\* C2, as the specification states it: after invalidateGroupMembershipCache(g)
\* the next gate call for g (non-empty requirement list) makes a new listGroups
\* request, and the invalidation leaves the decisions of other groups unchanged.
C2_AsStated == []C2_NextCallFetches /\ [][C2_OthersUntouched]_vars

\* C2, amended (host handling one event at a time, the group id passed as the
\* same string): after invalidateGroupMembershipCache(g) the next gate call
\* for g returns no decision stored before the invalidation and reads a
\* directory requested after it, by its own request unless another call has
\* refreshed the snapshot since the invalidation; the invalidation leaves the
\* decisions of other groups unchanged.
C2_Invalidation == []C2_NextCallReadsAfresh /\ [][C2_OthersUntouched]_vars

\* the decision of a group was dropped and is fetched anew while the decision
\* of another group is still stored
C2_Witness ==
  \E p \in Live :
    LET c == calls[p]
    IN /\ GateDone(c) /\ c.firstAfterInval /\ c.allowedBefore /\ c.rpcs = 1
       /\ \E h \in HostIds \ {c.groupId} :
            buildCacheKey(c.accountKey, h) \in DOMAIN membershipCache

\* ---------------------------------------------------------------- C3
\* C3: (1) a gate call that repeats a call that returned true, within 60 s of
\* the time that decision was computed and with no invalidation in between,
\* returns true without a request, whatever the daemon holds by now; (2) the
\* first gate call for a group id after its invalidation that returns a
\* boolean returns false when the daemon, unchanged since the invalidation,
\* holds no required member for the group.
C3_StaleUntilInvalidated ==
  \A p \in Live :
    LET c == calls[p]
    IN /\ (GateDone(c) /\ c.repeats.is /\ c.repeats.outcome = RetBool(TRUE)
             /\ c.now - c.repeats.decidedAt < MEMBERSHIP_CACHE_TTL_MS)
            => (c.outcome = RetBool(TRUE) /\ c.rpcs = 0)
       /\ (GateDone(c) /\ c.firstAfterInval /\ c.outcome.kind = "bool"
             /\ ~c.changedAtStart
             /\ ~GateDecision(daemon, c.groupId, c.requiredNumbers))
            => c.outcome = RetBool(FALSE)

\* a decision "true" was invalidated and the next call for the group, the
\* member gone, returns false
C3_Witness ==
  \E p \in Live :
    LET c == calls[p]
    IN /\ GateDone(c) /\ c.firstAfterInval /\ c.allowedBefore
       /\ ~GateDecision(daemon, c.groupId, c.requiredNumbers)
       /\ c.outcome = RetBool(FALSE)

\* ---------------------------------------------------------------- C4
\* what a gate call with an empty requirement list does, from its start to
\* the return to its caller
C4_EmptyCallStep ==
  \A p \in Live :
    /\ (calls[p].pc = "idle" /\ calls'[p].pc # "idle" /\ calls'[p].fn = "gate"
          /\ calls'[p].requiredNumbers = <<>>)
         => /\ calls'[p].pc = "done"
            /\ calls'[p].outcome = RetBool(TRUE)
            /\ calls'[p].rpcs = 0
            /\ UNCHANGED caches
    /\ (calls[p].pc = "done" /\ calls[p].fn = "gate" /\ calls[p].requiredNumbers = <<>>
          /\ calls'[p].pc = "idle")
         => UNCHANGED caches

\* C4: checkGroupHasRequiredMember with an empty requirement list returns
\* true for every group id in every state of the caches, makes no request and
\* leaves the decision cache and the directory snapshot unchanged.
C4_EmptyRequirement == [][C4_EmptyCallStep]_vars

\* an empty requirement is met for a group whose decision is stored as
\* "not allowed", with the snapshot marked stale
C4_Witness ==
  \E p \in Live :
    LET c == calls[p]
    IN /\ c.pc = "done" /\ c.fn = "gate" /\ c.requiredNumbers = <<>>
       /\ c.outcome = RetBool(TRUE) /\ c.rpcs = 0
       /\ KeyOf(c) \in DOMAIN membershipCache
       /\ ~membershipCache[KeyOf(c)].allowed
       /\ cachedAt = 0

\* ----------------------------------------- single decisions (SpecDecide)
\* a gate call that has computed a decision from a directory it obtained
GateComputed(c) == GateDone(c) /\ ~c.decisionHit /\ c.outcome.kind # "transport"

\* the requirement list holds the wildcard
HasWildcard(requiredNumbers) == \E i \in DOMAIN requiredNumbers : requiredNumbers[i] = Star

\* the groups of the list whose id is the id asked for, byte for byte
ExactMatches(groups, groupId) == {i \in DOMAIN groups : groups[i].id = groupId}

\* the groups of the list whose id is the id asked for but for the case
LooseMatches(groups, groupId) ==
  {i \in DOMAIN groups : ToLower(groups[i].id) = ToLower(groupId)}

\* ---------------------------------------------------------------- C5
\* C5, as the specification states it: a gate call whose requirement list
\* contains "*" and that returns, returns true.
C5_AsStated ==
  \A p \in Live :
    LET c == calls[p]
    IN (GateDone(c) /\ HasWildcard(c.requiredNumbers) /\ c.outcome.kind = "bool")
         => c.outcome = RetBool(TRUE)

\* C5, amended: a gate call whose requirement list contains "*", that finds
\* no fresh decision for its key and finds the group in the directory (exactly
\* or case-insensitively), returns true and stores true, whoever the members
\* are and also when the group has no members or no member list.
C5_Wildcard ==
  \A p \in Live :
    LET c == calls[p]
    IN (GateComputed(c) /\ HasWildcard(c.requiredNumbers)
          /\ LooseMatches(c.groups, c.groupId) # {})
         => /\ c.outcome = RetBool(TRUE)
            /\ KeyOf(c) \in DOMAIN membershipCache
            /\ membershipCache[KeyOf(c)] = [allowed |-> TRUE, cachedAt |-> c.now]

\* the wildcard is met by a group that has no member list
C5_Witness ==
  \E p \in Live :
    LET c == calls[p]
    IN /\ GateComputed(c) /\ HasWildcard(c.requiredNumbers)
       /\ c.groups = DirNoMembers
       /\ c.outcome = RetBool(TRUE)

\* ---------------------------------------------------------------- C6
\* the phones and the uuids a requirement list asks for
RequiredPhonesOf(requiredNumbers) ==
  {parseSignalAllowEntry(requiredNumbers[i]).e164 :
     i \in {j \in DOMAIN requiredNumbers :
              parseSignalAllowEntry(requiredNumbers[j]).kind = "phone"}}

RequiredUuidsOf(requiredNumbers) ==
  {parseSignalAllowEntry(requiredNumbers[i]).raw :
     i \in {j \in DOMAIN requiredNumbers :
              parseSignalAllowEntry(requiredNumbers[j]).kind = "uuid"}}

\* the members of a directory group, none when it has no member list
MembersOf(group) ==
  IF group.hasMembers THEN {group.members[i] : i \in DOMAIN group.members} ELSE {}

\* C6: a gate call that finds no fresh decision, finds the group in the
\* directory and has no "*" in its requirement list returns a boolean, never
\* an error, and returns true if and only if some member of the group has a
\* phone number whose normalized E.164 form is a required phone or a uuid
\* equal to a required uuid; a member without phone and a group without
\* member list match nothing.
C6_Decision ==
  \A p \in Live :
    LET c == calls[p]
        at == FindGroupExactFirst(c.groups, c.groupId)
    IN (GateComputed(c) /\ ~HasWildcard(c.requiredNumbers) /\ at # 0)
         => /\ c.outcome.kind = "bool"
            /\ c.outcome.bool <=>
                 \E m \in MembersOf(c.groups[at]) :
                   \/ /\ m.number.def
                      /\ normalizeE164(m.number.val).def
                      /\ normalizeE164(m.number.val).val
                           \in RequiredPhonesOf(c.requiredNumbers)
                   \/ /\ m.uuid.def
                      /\ m.uuid.val \in RequiredUuidsOf(c.requiredNumbers)

\* a member without phone number meets the requirement by its uuid
C6_Witness ==
  \E p \in Live :
    LET c == calls[p]
    IN /\ GateComputed(c) /\ c.requiredNumbers = ReqUuidOrOther
       /\ c.groups = DirWithout
       /\ c.outcome = RetBool(TRUE)

\* ---------------------------------------------------------------- C7
\* C7: (1) a gate call that finds no fresh decision and no group of the
\* directory matching its group id, exactly or case-insensitively, returns
\* false, throws nothing and stores the decision "false" stamped with its
\* time; (2) the same call repeated within 60 s, with no invalidation in
\* between, returns that false without a request.
C7_NotFound ==
  \A p \in Live :
    LET c == calls[p]
    IN /\ (GateComputed(c) /\ LooseMatches(c.groups, c.groupId) = {})
            => /\ c.outcome = RetBool(FALSE)
               /\ KeyOf(c) \in DOMAIN membershipCache
               /\ membershipCache[KeyOf(c)] = [allowed |-> FALSE, cachedAt |-> c.now]
       /\ (GateDone(c) /\ c.repeats.is /\ ~c.repeats.decisionHit
             /\ c.repeats.outcome.kind = "bool"
             /\ cachedGroups.def /\ LooseMatches(cachedGroups.val, c.groupId) = {})
            => (c.decisionHit /\ c.outcome = RetBool(FALSE) /\ c.rpcs = 0)

\* the repeated call returns the stored false after the group, with a
\* required member, has appeared at the daemon
C7_Witness ==
  \E p \in Live :
    LET c == calls[p]
    IN /\ GateDone(c) /\ c.repeats.is /\ ~c.repeats.decisionHit
       /\ c.repeats.rpcs = 1
       /\ LooseMatches(cachedGroups.val, c.groupId) = {}
       /\ GateDecision(daemon, c.groupId, c.requiredNumbers)
       /\ c.now > c.repeats.now
       /\ c.outcome = RetBool(FALSE) /\ c.rpcs = 0

\* ---------------------------------------------------------------- C8
\* the group the gate is to use: the first with the id asked for; when there
\* is none, the first with that id but for the case
IsChosen(groups, groupId, i) ==
  \/ /\ i \in ExactMatches(groups, groupId)
     /\ \A j \in ExactMatches(groups, groupId) : i <= j
  \/ /\ ExactMatches(groups, groupId) = {}
     /\ i \in LooseMatches(groups, groupId)
     /\ \A j \in LooseMatches(groups, groupId) : i <= j

\* C8: a gate call that finds no fresh decision decides on the group whose id
\* equals its group id exactly when there is one, and otherwise on the first
\* group in directory order whose id equals it case-insensitively; several
\* case-insensitive matches raise no error.
C8_Lookup ==
  \A p \in Live :
    LET c == calls[p]
    IN (GateComputed(c) /\ LooseMatches(c.groups, c.groupId) # {})
         => /\ c.outcome.kind = "bool"
            /\ \E i \in DOMAIN c.groups :
                 /\ IsChosen(c.groups, c.groupId, i)
                 /\ c.outcome.bool = DecideMembership(c.groups[i], c.requiredNumbers)

\* two groups match but for the case, none exactly, and the member of the
\* first one decides
C8_Witness ==
  \E p \in Live :
    LET c == calls[p]
    IN /\ GateComputed(c) /\ c.groups = DirTwoCases /\ c.groupId = IdLower
       /\ c.requiredNumbers = ReqUuidOrOther
       /\ c.outcome = RetBool(TRUE)

\* ---------------------------------------------------------------- C9
\* a resolver call that has matched its id on a list it fetched
ResolveFetched(c) ==
  c.pc = "done" /\ c.fn = "resolve" /\ c.rpcs = 1 /\ c.outcome.kind # "transport"

\* C9: when the list resolveSignalGroupId fetched holds exactly one group
\* whose id equals the query case-insensitively, the call returns the id of
\* that group as the directory stores it, whatever the case of the query.
C9_Canonical ==
  \A p \in Live :
    LET c == calls[p]
    IN (ResolveFetched(c) /\ Cardinality(LooseMatches(c.groups, c.groupId)) = 1)
         => \E i \in LooseMatches(c.groups, c.groupId) : c.outcome = RetId(c.groups[i].id)

\* the lower-cased query is resolved to the id in its stored case
C9_Witness ==
  \E p \in Live :
    LET c == calls[p]
    IN /\ ResolveFetched(c) /\ c.groupId = IdLower
       /\ Cardinality(LooseMatches(c.groups, c.groupId)) = 1
       /\ c.outcome = RetId(IdAb)

SnapshotKeyOf(opts) ==
  opts.baseUrl \o <<"|">> \o (IF opts.account.def THEN opts.account.val ELSE <<>>)

\* a snapshot of the key of these options, younger than 5 minutes, holds a
\* group with exactly this id
FastPathApplies(groupId, opts) ==
  /\ cachedGroups.def
  /\ cacheAccountKey = SnapshotKeyOf(opts)
  /\ now - cachedAt < GROUP_ID_CACHE_TTL_MS
  /\ \E i \in DOMAIN cachedGroups.val : cachedGroups.val[i].id = groupId

\* the steps of a resolver call: its start, the arrival of the list and its
\* return to the caller
C11_ResolverStep ==
  \A p \in Live :
    /\ (calls[p].pc = "idle" /\ calls'[p].fn = "resolve")
         => LET c == calls'[p]
            IN IF FastPathApplies(c.groupId, c.opts)
                 THEN /\ c.pc = "done" /\ c.rpcs = 0
                      /\ c.outcome = RetId(c.groupId)
                      /\ UNCHANGED caches
                 ELSE c.pc = "rpc" /\ c.rpcs = 1 /\ c.forceFresh
    /\ (calls[p].fn = "resolve" /\ calls[p].pc = "rpc" /\ calls'[p].pc = "resume")
         => /\ cachedGroups' = Some(calls'[p].groups)
            /\ cachedAt' = calls[p].now
            /\ cacheAccountKey' = SnapshotKeyOf(calls[p].opts)
    /\ (calls[p].fn = "resolve" /\ calls[p].pc = "done" /\ calls[p].rpcs = 0
          /\ calls'[p].pc = "idle")
         => UNCHANGED caches

\* a resolver call makes one request at most, and matches on the list that
\* it has stored as the snapshot
C11_ResolverState ==
  \A p \in Live :
    LET c == calls[p]
    IN c.fn = "resolve"
         => /\ c.rpcs <= 1
            /\ c.pc = "resume"
                 => (cachedGroups = Some(c.groups) /\ cachedAt = c.now
                       /\ cacheAccountKey = c.accountKey)

\* C11: resolveSignalGroupId makes no request and leaves the snapshot as it
\* is exactly when a snapshot of the same (endpoint, account) key younger
\* than 5 minutes holds a group with the id asked for byte for byte; in every
\* other case it makes exactly one request, whatever the age of the snapshot,
\* and the list that arrives replaces the snapshot before the matching.
C11_FastPath == [][C11_ResolverStep]_vars /\ []C11_ResolverState

\* a fresh snapshot of the other account holds the id asked for, and the
\* resolver fetches
C11_Witness ==
  \E p \in Live :
    LET c == calls[p]
    IN /\ c.fn = "resolve" /\ c.pc = "rpc" /\ c.rpcs = 1
       /\ cachedGroups.def /\ c.now - cachedAt < GROUP_ID_CACHE_TTL_MS
       /\ cacheAccountKey # c.accountKey
       /\ \E i \in DOMAIN cachedGroups.val : cachedGroups.val[i].id = c.groupId

\* --------------------------------------------------------------- C12
\* a snapshot of the key of these options is stored and younger than 5 minutes
SnapshotServes(opts) ==
  /\ cachedGroups.def
  /\ cacheAccountKey = SnapshotKeyOf(opts)
  /\ now - cachedAt < GROUP_ID_CACHE_TTL_MS

\* the steps of getCachedGroups within a call of the gate or of the resolver:
\* its entry, and the arrival of the list it asked for
C12_DirectoryStep ==
  \A p \in Live :
    /\ (calls[p].pc = "idle" /\ calls'[p].pc \in {"resume", "rpc"})
         => LET c == calls'[p]
            IN IF ~c.forceFresh /\ SnapshotServes(c.opts)
                 THEN /\ c.pc = "resume" /\ c.rpcs = 0
                      /\ c.groups = cachedGroups.val
                      /\ UNCHANGED <<cachedGroups, cachedAt, cacheAccountKey>>
                 ELSE c.pc = "rpc" /\ c.rpcs = 1
    /\ (calls[p].pc = "rpc" /\ calls'[p].pc = "resume")
         => /\ calls'[p].groups =
                 (IF calls[p].resp.status = "array" THEN calls[p].resp.items ELSE <<>>)
            /\ cachedGroups' = Some(calls'[p].groups)
            /\ cachedAt' = calls[p].now
            /\ cacheAccountKey' = SnapshotKeyOf(calls[p].opts)

\* C12: getCachedGroups returns the stored snapshot without a request if and
\* only if forceFresh is not set, a snapshot is stored, its key is
\* endpoint | account-or-empty of the call and its age is under 5 minutes;
\* otherwise it makes a request, and the list that arrives replaces the one
\* stored snapshot, its time stamp and its key together. A call for another
\* account therefore fetches, and its list takes the place of the snapshot of
\* the account before.
C12_DirectoryCache == [][C12_DirectoryStep]_vars

\* the gate fetches for one account while a snapshot of the other account,
\* younger than 5 minutes, is stored
C12_Witness ==
  \E p \in Live :
    LET c == calls[p]
    IN /\ c.fn = "gate" /\ c.pc = "rpc" /\ c.rpcs = 1 /\ ~c.forceFresh
       /\ cachedGroups.def /\ c.now - cachedAt < GROUP_ID_CACHE_TTL_MS
       /\ cacheAccountKey # c.accountKey

\* --------------------------------------------------------------- C13
\* from invalidateGroupMembershipCache() to the next gate call the decision
\* cache is empty, and the snapshot is marked stale until a call stores one
C13_Emptied ==
  cleared => (membershipCache = <<>> /\ (refetched \/ cachedAt = 0))

\* C13, as the specification states it: invalidateGroupMembershipCache()
\* empties the decision cache and marks the snapshot stale, and the next gate
\* call (non-empty requirement list), for whichever group, makes a new request.
C13_AsStated ==
  /\ C13_Emptied
  /\ \A p \in Live :
       LET c == calls[p]
       IN (c.pc # "idle" /\ c.fn = "gate" /\ c.firstAfterClear) => c.rpcs = 1

\* C13, amended (host handling one event at a time):
\* invalidateGroupMembershipCache() empties the decision cache and marks the
\* snapshot stale; the next gate call (non-empty requirement list), for
\* whichever group, finds no decision and reads a directory requested after
\* the invalidation, by its own request unless a resolver call has stored a
\* snapshot since the invalidation.
C13_ClearAll ==
  /\ C13_Emptied
  /\ \A p \in Live :
       LET c == calls[p]
       IN (c.pc # "idle" /\ c.fn = "gate" /\ c.firstAfterClear)
            => /\ ~c.decisionHit
               /\ ~c.cached.def
               /\ \/ c.rpcs = 1
                  \/ c.snapshotHit /\ c.refetchedAtStart

\* the first gate call after all groups were invalidated has fetched, and its
\* decision is the only one stored
C13_Witness ==
  \E p \in Live :
    LET c == calls[p]
    IN /\ GateDone(c) /\ c.firstAfterClear /\ c.rpcs = 1
       /\ c.outcome.kind = "bool"
       /\ DOMAIN membershipCache = {KeyOf(c)}
       /\ started > 1

\* --------------------------------------------------------------- C14
\* the steps of a call whose request fails: none of them touches a cache, and
\* the failure ends the call with the error of the request
C14_FailureStep ==
  \A p \in Live :
    /\ (calls[p].pc = "idle" /\ calls'[p].pc = "rpc") => UNCHANGED caches
    /\ (calls[p].pc = "rpc" /\ calls'[p].pc = "rpc") => UNCHANGED caches
    /\ (calls[p].pc = "rpc" /\ calls[p].resp.status = "error" /\ calls'[p].pc # "rpc")
         => /\ calls'[p].pc = "done"
            /\ calls'[p].outcome = ThrowTransport
            /\ UNCHANGED caches
    /\ (calls[p].pc = "done" /\ calls[p].outcome = ThrowTransport /\ calls'[p].pc = "idle")
         => UNCHANGED caches

\* C14: when the listGroups request of a gate call or of a resolver call fails
\* or times out, the call ends with that error, and from its start to its end
\* the snapshot (groups, time stamp, key) is not modified and no decision is
\* written or removed.
C14_TransportFailure == [][C14_FailureStep]_vars

\* a gate call fails while the snapshot and the decision of its key, both
\* beyond their TTL, are still stored
C14_Witness ==
  \E p \in Live :
    LET c == calls[p]
    IN /\ c.pc = "done" /\ c.fn = "gate" /\ c.outcome = ThrowTransport
       /\ cachedGroups.def /\ cacheAccountKey = c.accountKey
       /\ c.now - cachedAt >= GROUP_ID_CACHE_TTL_MS
       /\ KeyOf(c) \in DOMAIN membershipCache

\* ---------------------------------------------------------------------
\* C15: invalidation is at once visible under any interleaving: after
\* invalidateGroupMembershipCache(g) no gate call for g that starts later
\* returns a decision, or reads a snapshot, that stems from an answer the
\* daemon gave before the invalidation, also when a call was suspended at
\* its request while the invalidation ran.
C15_AsStated ==
  \A p \in Live : ~calls[p].usedStale

\* ---------------------------------------------------------------------
\* C16: calls that miss the cache while another call's request is pending
\* each issue a request of their own; each call that gets its list stores
\* it as the snapshot, over what another call stored meanwhile, so that the
\* snapshot is the list of the call that was answered last; and each call
\* computes its result from the list of its own request.
Fetched(p) ==
  /\ calls[p].pc \in {"resume", "done"}
  /\ calls[p].rpcs = 1
  /\ calls[p].resp.status \in {"array", "nonArray"}

C16_LastWriterWins ==
  /\ \A p, q \in Live :
       (p # q /\ (calls[p].pc = "rpc" \/ calls[p].overlapped) /\ calls[q].pc = "rpc")
         => (calls[p].rpcs = 1 /\ calls[q].rpcs = 1)
  /\ \A p \in Live :
       Fetched(p) =>
         /\ cachedGroups = [def |-> TRUE, val |-> ListGroupsResult(calls[p].resp)]
         /\ cachedAt = calls[p].now
         /\ cacheAccountKey = buildAccountKey(calls[p].opts.baseUrl, calls[p].opts.account)
         /\ calls[p].groups = ListGroupsResult(calls[p].resp)
         /\ calls[p].pc = "done" =>
              calls[p].outcome =
                IF calls[p].fn = "gate"
                  THEN RetBool(GateDecision(ListGroupsResult(calls[p].resp),
                                            calls[p].groupId, calls[p].requiredNumbers))
                  ELSE ResolveInGroups(ListGroupsResult(calls[p].resp), calls[p].groupId)

\* two gate calls overlapped, were answered with different lists, and the
\* second to be answered has stored its list and decided from it, unlike the
\* first
C16_Witness ==
  \E p \in Live :
    /\ Fetched(p)
    /\ calls[p].pc = "done"
    /\ calls[p].overlapped
    /\ calls[p].fn = "gate"
    /\ prev.is /\ prev.fn = "gate" /\ prev.rpcs = 1
    /\ prev.groupId = calls[p].groupId
    /\ prev.outcome = RetBool(TRUE)
    /\ calls[p].outcome = RetBool(FALSE)
    /\ cachedGroups.val = DirWithout

\* ---------------------------------------------------------------------
\* the messages handled so far, in the order of arrival
Handled == [i \in 1..Len(verdicts) |-> i]
IsDispatched(i) == \E k \in 1..Len(dispatched) : dispatched[k] = i

\* C17: fail-closed: a membership check whose request to the daemon fails
\* ends with the transport error (the gate does not swallow it), and the
\* host does not dispatch the message that was being checked.
C17_FailClosed ==
  /\ \A p \in Live :
       (calls[p].pc = "done" /\ calls[p].fn = "gate" /\ calls[p].resp.status = "error")
         => calls[p].outcome = ThrowTransport
  /\ \A i \in 1..Len(verdicts) :
       verdicts[i] = ThrowTransport => ~IsDispatched(i)

\* a message was dispatched, and a later one whose check threw was not
C17_Witness ==
  \E i, j \in 1..Len(verdicts) :
    /\ i < j
    /\ verdicts[i] = RetBool(TRUE) /\ IsDispatched(i)
    /\ verdicts[j] = ThrowTransport /\ ~IsDispatched(j)

\* C18: the messages dispatched to the session are, in the order of
\* arrival, exactly the messages whose check returned true when they
\* arrived; a message that arrived while the check returned false is not
\* dispatched later, also not once the check returns true again.
C18_Lifecycle ==
  dispatched = SelectSeq(Handled, LAMBDA i : verdicts[i] = RetBool(TRUE))

\* allowed, dropped, allowed again: the first and the third message are the
\* session's, the second is lost
C18_Witness ==
  /\ Len(verdicts) >= 3
  /\ verdicts[1] = RetBool(TRUE)
  /\ verdicts[2] = RetBool(FALSE)
  /\ verdicts[3] = RetBool(TRUE)
  /\ dispatched = <<1, 3>>

\* ---------------------------------------------------------------------
\* C19: a listGroups reply that is no array is an empty group list and not
\* an error: the call goes on with no groups, the snapshot stored is the
\* empty list, a gate call (its requirement list is not empty) returns
\* false, and a resolver call fails with NotFound and 0 known groups.
C19_NonArray ==
  \A p \in Live :
    (calls[p].pc \in {"resume", "done"} /\ calls[p].resp.status = "nonArray") =>
      /\ calls[p].groups = <<>>
      /\ cachedGroups = [def |-> TRUE, val |-> <<>>]
      /\ cachedAt = calls[p].now
      /\ calls[p].pc = "done" =>
           /\ calls[p].fn = "gate" => calls[p].outcome = RetBool(FALSE)
           /\ calls[p].fn = "resolve" => calls[p].outcome = ThrowNotFound(0)

\* a gate call whose group the daemon knows with the required member, and
\* whose request was answered with something that is no array, has returned
\* false
C19_Witness ==
  \E p \in Live :
    /\ calls[p].pc = "done"
    /\ calls[p].fn = "gate"
    /\ calls[p].resp.status = "nonArray"
    /\ GateDecision(daemon, calls[p].groupId, calls[p].requiredNumbers)
    /\ calls[p].outcome = RetBool(FALSE)
    /\ cachedGroups = [def |-> TRUE, val |-> <<>>]

\* ---------------------------------------------------------------------
\* C20: a UUID of 32 hex digits, written with or without hyphens and in any
\* letter case, is normalized to the same lower-case hyphenated 8-4-4-4-12
\* form whether it comes with no prefix, with uuid: or with signal:uuid:.
C20_UuidTargets ==
  \A pre \in UuidPrefixes, u \in UuidBodies, c \in LetterCases, f \in UuidForms :
    (normalized.def /\ target = pre \o InForm(InCase(u, c), f)) => normalized.val = u

\* a compact UUID in mixed case after signal:uuid: has been normalized
C20_Witness ==
  /\ normalized.def
  /\ target = SignalPrefix \o UuidPrefix \o InForm(InCase(UuidTarget, "mixed"), "compact")
  /\ normalized.val = UuidTarget
  /\ Len(target) = Len(SignalPrefix) + Len(UuidPrefix) + UuidHexDigits
  /\ target # SignalPrefix \o UuidPrefix \o InForm(UuidTarget, "compact")

\* ---------------------------------------------------------------------
\* C21: for every opaque group id, the targets "group:" + id and
\* "signal:group:" + id are both normalized to "group:" + id, the id kept as
\* it is, letter case and characters alike.
C21_GroupTargets ==
  \A pre \in GroupTargetPrefixes, id \in GroupBodies :
    (normalized.def /\ target = pre \o GroupPrefix \o id)
      => normalized.val = GroupPrefix \o id

\* a base64 id with letters of both cases after signal:group: has been
\* normalized, and lower-casing it would have given another id
C21_Witness ==
  /\ normalized.def
  /\ target = SignalPrefix \o GroupPrefix \o IdBase64
  /\ normalized.val = GroupPrefix \o IdBase64
  /\ ToLower(IdBase64) # IdBase64

\* ---------------------------------------------------------------------
\* C22: the classifier has no side effects; it answers true for a UUID of
\* 32 hex digits, hyphenated or compact, with or without uuid: and with or
\* without signal:, and for group: followed by a non-empty body; it answers
\* false for uuid: followed by nothing or by what is no UUID.
C22_Answers ==
  classified.def =>
    /\ target \in UuidTargets => classified.val
    /\ target \in SignalBareTargets => classified.val
    /\ \A pre \in GroupTargetPrefixes, id \in GroupBodies :
         target = pre \o GroupPrefix \o id => classified.val
    /\ \A b \in NotUuidBodies : target = UuidPrefix \o b => ~classified.val

C22_NoSideEffect ==
  classified' # classified =>
    UNCHANGED <<second, target, normalized, host, now, advances, daemon, caches, calls, started,
                history>>

\* C22: the answers, at every state, and the absence of side effects, at
\* every step
C22_Classifier == []C22_Answers /\ [][C22_NoSideEffect]_vars

\* 31 hex digits after uuid: have been classified as no target id, with the
\* target and its normal form left as they were
C22_Witness ==
  /\ classified.def
  /\ ~classified.val
  /\ normalized.def
  /\ target = UuidPrefix \o SubSeq(InForm(UuidTarget, "compact"), 1, UuidHexDigits - 1)

\* the decision key of a call
CacheKeyOf(c) == buildCacheKey(buildAccountKey(c.opts.baseUrl, c.opts.account), c.groupId)

\* ---------------------------------------------------------------------
\* C23: a gate call with a non-empty requirement list issues a listGroups
\* request if and only if there is neither a decision younger than 60 s
\* under its key nor a snapshot of its account key younger than 5 min; a
\* call that meets an expired decision and a fresh snapshot decides anew
\* from that snapshot, stores the decision, and issues no request.
C23_Request ==
  \A p \in Live :
    (/\ calls[p].pc = "idle" /\ calls'[p].pc # "idle"
     /\ calls'[p].fn = "gate" /\ calls'[p].requiredNumbers # <<>>) =>
      LET c == calls'[p]
          youngDecision ==
            /\ CacheKeyOf(c) \in DOMAIN membershipCache
            /\ now - membershipCache[CacheKeyOf(c)].cachedAt < MEMBERSHIP_CACHE_TTL_MS
          youngSnapshot ==
            /\ cachedGroups.def
            /\ cacheAccountKey = buildAccountKey(c.opts.baseUrl, c.opts.account)
            /\ now - cachedAt < GROUP_ID_CACHE_TTL_MS
      IN /\ (c.pc = "rpc") <=> (~youngDecision /\ ~youngSnapshot)
         /\ c.rpcs = IF c.pc = "rpc" THEN 1 ELSE 0
         /\ c.decisionHit <=> youngDecision

C23_Recomputed ==
  \A p \in Live :
    /\ calls[p].resp.status # "none" => calls[p].rpcs = 1
    /\ (/\ calls[p].pc = "done" /\ calls[p].fn = "gate"
        /\ calls[p].requiredNumbers # <<>>
        /\ calls[p].cached.def
        /\ calls[p].now - calls[p].cached.cachedAt >= MEMBERSHIP_CACHE_TTL_MS
        /\ calls[p].snapshotHit) =>
          /\ calls[p].rpcs = 0
          /\ calls[p].resp.status = "none"
          /\ calls[p].groups = cachedGroups.val
          /\ calls[p].outcome =
               RetBool(GateDecision(cachedGroups.val, calls[p].groupId,
                                    calls[p].requiredNumbers))
          /\ membershipCache[CacheKeyOf(calls[p])] =
               [allowed |-> calls[p].outcome.bool, cachedAt |-> calls[p].now]

\* C23: the request issued if and only if both caches miss, at every start
\* of a gate call, and the recomputation from the snapshot
C23_BothMiss == []C23_Recomputed /\ [][C23_Request]_vars

\* a gate call has met a decision that had expired and a snapshot still
\* fresh, and has returned, without a request, a decision from the snapshot
\* that is not the one that had expired
C23_Witness ==
  \E p \in Live :
    /\ calls[p].pc = "done" /\ calls[p].fn = "gate"
    /\ calls[p].cached.def
    /\ calls[p].now - calls[p].cached.cachedAt >= MEMBERSHIP_CACHE_TTL_MS
    /\ calls[p].snapshotHit
    /\ calls[p].rpcs = 0
    /\ calls[p].outcome = RetBool(~calls[p].cached.allowed)

\* ---------------------------------------------------------------------
\* C24: the decision cache changes in two kinds of step only: a gate call
\* that stores its decision (one key, the others as they were) and an
\* invalidation (entries removed, none altered). A step that stores a
\* snapshot, for the same or another account, from the gate or from the
\* resolver's forced fetch, and a step of the clock that lets the snapshot
\* expire, leave every decision entry as it was.
C24_GateWrite ==
  \E p \in Live :
    /\ calls[p].pc = "resume" /\ calls[p].fn = "gate" /\ calls'[p].pc = "done"
    /\ LET key == buildCacheKey(buildAccountKey(calls[p].opts.baseUrl, calls[p].opts.account),
                                calls[p].groupId)
       IN /\ DOMAIN membershipCache' = DOMAIN membershipCache \cup {key}
          /\ membershipCache'[key].cachedAt = calls[p].now
          /\ \A k \in DOMAIN membershipCache : k # key => membershipCache'[k] = membershipCache[k]

C24_Invalidation ==
  /\ Quiet /\ calls' = calls
  /\ cachedAt' = 0
  /\ DOMAIN membershipCache' \subseteq DOMAIN membershipCache
  /\ \A k \in DOMAIN membershipCache' : membershipCache'[k] = membershipCache[k]

C24_Step ==
  /\ membershipCache' # membershipCache => (C24_GateWrite \/ C24_Invalidation)
  /\ (\/ cachedGroups' # cachedGroups
      \/ cacheAccountKey' # cacheAccountKey
      \/ now' # now
      \/ \E p \in Live : calls[p].pc = "rpc" \/ calls[p].fn = "resolve")
       => membershipCache' = membershipCache

\* C24: every step is of one of these kinds
C24_Independent == [][C24_Step]_vars

\* a decision is in the cache, with the value and the time stamp it was
\* stored with, while the snapshot it was computed from has been replaced
\* by one fetched later for the other account
C24_Witness ==
  \E k \in DOMAIN membershipCache :
    /\ decisionOrigin[k].def /\ snapshotOrigin.def
    /\ snapshotOrigin.opts # decisionOrigin[k].opts
    /\ snapshotOrigin.at > decisionOrigin[k].at
    /\ membershipCache[k].cachedAt = decisionOrigin[k].at
    /\ cacheAccountKey = buildAccountKey(snapshotOrigin.opts.baseUrl, snapshotOrigin.opts.account)
    /\ ~StartsWith(k, cacheAccountKey \o Bar)

\* ---------------------------------------------------------------------
\* C25: a call of the gate or of the resolver issues at most one listGroups
\* request; the request is answered once; when the answer or the failure
\* arrives the call goes on to its result, a value or an error, and never
\* back to a request.
C25_AtMostOne ==
  \A p \in Live :
    /\ calls[p].rpcs \in {0, 1}
    /\ calls[p].pc = "rpc" => calls[p].rpcs = 1
    /\ calls[p].resp.status # "none" => calls[p].rpcs = 1
    /\ calls[p].pc = "done" => calls[p].outcome # NoOutcome

C25_Progress ==
  \A p \in Live :
    /\ (calls[p].pc = "rpc" /\ calls'[p] # calls[p]) =>
         IF calls[p].resp.status = "none"
         THEN \* the daemon answers, or the request fails or times out
              /\ calls'[p].pc = "rpc" /\ calls'[p].resp.status # "none"
              /\ calls'[p].rpcs = 1
         ELSE /\ calls'[p].pc \in {"resume", "done"}
              /\ calls'[p].rpcs = 1
              /\ calls'[p].resp = calls[p].resp
              /\ calls[p].resp.status = "error" =>
                   (calls'[p].pc = "done" /\ calls'[p].outcome = ThrowTransport)
    /\ (calls[p].pc = "resume" /\ calls'[p] # calls[p]) =>
         (calls'[p].pc = "done" /\ calls'[p].rpcs = calls[p].rpcs)
    /\ (calls[p].pc = "done" /\ calls'[p] # calls[p]) => calls'[p].pc = "idle"

\* C25: at most one request per call, and no way back to a request
C25_NoRetry == []C25_AtMostOne /\ [][C25_Progress]_vars

\* a gate call that found an expired decision and no usable snapshot has
\* issued its one request, the request has failed, and the call has ended
\* with the transport error
C25_Witness ==
  \E p \in Live :
    /\ calls[p].pc = "done" /\ calls[p].fn = "gate"
    /\ calls[p].cached.def
    /\ calls[p].rpcs = 1
    /\ calls[p].resp.status = "error"
    /\ calls[p].outcome = ThrowTransport

\* ---------------------------------------------------------------------
\* C26: requirement entries that do not parse are left out and raise no
\* error: the gate decides as it would for the list without them; when the
\* group is found and no entry of a non-empty list parses, the decision is
\* false and is stored, whereas the empty list gives true.
C26_Parses(entry) == parseSignalAllowEntry(entry) # NullEntry
C26_Computed(c) ==
  /\ c.pc = "done" /\ c.fn = "gate" /\ c.requiredNumbers # <<>>
  /\ ~c.decisionHit /\ c.resp.status # "error"

C26_Unparsable ==
  \A p \in Live :
    LET c == calls[p]
        at == FindGroupExactFirst(c.groups, c.groupId)
        kept == SelectSeq(c.requiredNumbers, C26_Parses)
    IN /\ (c.pc = "done" /\ c.fn = "gate" /\ c.requiredNumbers = <<>>)
            => c.outcome = RetBool(TRUE)
       /\ C26_Computed(c) =>
            /\ c.outcome.kind = "bool"
            /\ at # 0 =>
                 /\ kept # <<>> => c.outcome = RetBool(DecideMembership(c.groups[at], kept))
                 /\ kept = <<>> =>
                      /\ c.outcome = RetBool(FALSE)
                      /\ membershipCache[CacheKeyOf(c)] =
                           [allowed |-> FALSE, cachedAt |-> c.now]

\* a gate call whose only requirement entry does not parse has found its
\* group, with members, and has returned and stored false
C26_Witness ==
  \E p \in Live :
    LET c == calls[p]
        at == FindGroupExactFirst(c.groups, c.groupId)
    IN /\ C26_Computed(c)
       /\ c.requiredNumbers = ReqUnparsable
       /\ at # 0 /\ c.groups[at].hasMembers /\ c.groups[at].members # <<>>
       /\ c.outcome = RetBool(FALSE)
       /\ membershipCache[CacheKeyOf(c)].allowed = FALSE

\* ---------------------------------------------------------------------
\* C27: the decision key is made of the endpoint, the account and the group
\* id, not of the requirement list: a gate call that finds a fresh entry
\* under its key returns the stored boolean whatever its (non-empty) list,
\* without evaluating membership and without writing, so that the result
\* is the same for every list the call could have passed.
C27_HitStep ==
  \A p \in Live :
    (/\ calls[p].pc = "idle" /\ calls'[p].pc # "idle"
     /\ calls'[p].fn = "gate" /\ calls'[p].requiredNumbers # <<>>) =>
      LET c == calls'[p]
          key == c.opts.baseUrl \o Bar
                   \o (IF c.opts.account.def THEN c.opts.account.val ELSE <<>>)
                   \o Bar \o c.groupId
      IN (/\ key \in DOMAIN membershipCache
          /\ now - membershipCache[key].cachedAt < MEMBERSHIP_CACHE_TTL_MS) =>
            /\ c.pc = "done"
            /\ c.outcome = RetBool(membershipCache[key].allowed)
            /\ c.rpcs = 0
            /\ UNCHANGED caches

C27_KeyWithoutList == [][C27_HitStep]_vars

\* a gate call with the wildcard in its list, for a group that the snapshot
\* and the daemon hold, has been answered false from the entry stored by a
\* call with another list
C27_Witness ==
  \E p \in Live :
    LET c == calls[p]
    IN /\ c.pc = "done" /\ c.fn = "gate" /\ c.decisionHit
       /\ c.requiredNumbers = ReqWildcard
       /\ c.outcome = RetBool(FALSE)
       /\ cachedGroups.def /\ cachedGroups.val = daemon
       /\ GateDecision(cachedGroups.val, c.groupId, c.requiredNumbers)
       /\ ~GateDecision(cachedGroups.val, c.groupId, ReqPhone)

\* ---------------------------------------------------------------------
\* C28: the gate stores its decision under the group id as it was passed,
\* not under the id of the group it found; invalidating a group id removes
\* the entries whose key ends with "|" and that id, byte for byte, and
\* leaves the others as they were, so that an entry under another spelling
\* of the same id is returned by the gate as long as it is younger than
\* 60 s, and is not returned after that.
C28_Store(p) ==
  LET c == calls[p]
      at == FindGroupExactFirst(c.groups, c.groupId)
  IN /\ DOMAIN membershipCache' = DOMAIN membershipCache \cup {CacheKeyOf(c)}
     /\ EndsWith(CacheKeyOf(c), Bar \o c.groupId)
     /\ (at # 0 /\ c.groups[at].id # c.groupId) =>
          \A k \in DOMAIN membershipCache' \ DOMAIN membershipCache :
            ~EndsWith(k, Bar \o c.groups[at].id)

C28_Remove ==
  \E g \in TtlIds :
    /\ g \in awaiting'
    /\ DOMAIN membershipCache' =
         {k \in DOMAIN membershipCache :
            SubSeq(k, Len(k) - Len(g), Len(k)) # <<"|">> \o g}
    /\ \A k \in DOMAIN membershipCache' : membershipCache'[k] = membershipCache[k]

C28_Answer(p) ==
  LET c == calls'[p]
      key == CacheKeyOf(c)
      kept == key \in DOMAIN membershipCache
  IN IF kept /\ now - membershipCache[key].cachedAt < MEMBERSHIP_CACHE_TTL_MS
     THEN c.pc = "done" /\ c.outcome = RetBool(membershipCache[key].allowed)
     ELSE c.pc \in {"rpc", "resume"}

C28_Step ==
  /\ \A p \in Live :
       /\ (calls[p].pc = "resume" /\ calls'[p].pc = "done") => C28_Store(p)
       /\ (calls[p].pc = "idle" /\ calls'[p].pc # "idle") => C28_Answer(p)
  /\ (Quiet /\ calls' = calls /\ cachedAt' = 0 /\ now' = now /\ daemon' = daemon) => C28_Remove

\* C28: every step that stores, removes or answers does so by the id as
\* passed
C28_KeyAsPassed == [][C28_Step]_vars

\* the required member has left the group and the group was invalidated
\* under the id the directory knows; the gate, asked for the lower-cased
\* id, answers true from the entry stored before the invalidation
C28_Witness ==
  \E p \in Live :
    LET c == calls[p]
    IN /\ c.pc = "done" /\ c.fn = "gate" /\ c.decisionHit
       /\ c.groupId = IdLower
       /\ IdAb \in awaiting /\ cachedAt = 0
       /\ FindGroupExactFirst(daemon, IdLower) # 0
       /\ daemon[FindGroupExactFirst(daemon, IdLower)].id = IdAb
       /\ c.outcome = RetBool(TRUE)
       /\ ~GateDecision(daemon, c.groupId, c.requiredNumbers)

\* ---------------------------------------------------------------------
\* C29: with calls for two accounts overlapping and overwriting the one
\* snapshot, the group list a gate call decides from was requested for the
\* endpoint and account of that call, and every decision in the cache was
\* computed from a list requested for the endpoint and account of its key;
\* the snapshot is kept under the key of the call whose answer it is.
C29_KeyFor(opts, groupId) ==
  opts.baseUrl \o <<"|">> \o (IF opts.account.def THEN opts.account.val ELSE <<>>)
    \o <<"|">> \o groupId

C29_Isolation ==
  /\ \A p \in Live :
       LET c == calls[p]
       IN (/\ c.fn = "gate" /\ c.requiredNumbers # <<>>
           /\ c.pc = "resume" \/ (c.pc = "done" /\ c.outcome.kind = "bool")) =>
             /\ c.origin.def
             /\ c.origin.opts = c.opts
  /\ \A k \in DOMAIN membershipCache :
       /\ k \in DOMAIN decisionOrigin
       /\ decisionOrigin[k].def
       /\ \E g \in IsolationIds : k = C29_KeyFor(decisionOrigin[k].opts, g)
  /\ (cachedGroups.def /\ snapshotOrigin.def) =>
       \A g \in IsolationIds :
         cacheAccountKey \o <<"|">> \o g = C29_KeyFor(snapshotOrigin.opts, g)

\* a gate call was suspended at its request while the answer for a call of
\* the other account arrived and was stored; it has since overwritten the
\* snapshot and stored its decision next to that of the other account
C29_Witness ==
  \E p \in Live :
    LET c == calls[p]
    IN /\ c.pc = "done" /\ c.fn = "gate" /\ c.outcome.kind = "bool"
       /\ c.overlapped /\ c.rpcs = 1
       /\ snapshotOrigin.opts = c.opts
       /\ C29_KeyFor(c.opts, c.groupId) \in DOMAIN membershipCache
       /\ \E k \in DOMAIN membershipCache :
            /\ decisionOrigin[k].opts # c.opts
            /\ k # C29_KeyFor(c.opts, c.groupId)

\* ---------------------------------------------------------------------
\* C30: the decision the gate returns for a non-empty requirement list was
\* computed from the answer to a request issued by a call that started
\* less than 5 min + 60 s before the call that returns it; a decision in
\* the cache was computed, at its time stamp, from such an answer less
\* than 5 min old.
C30_Staleness ==
  /\ \A p \in Live :
       LET c == calls[p]
       IN (/\ c.pc = "done" /\ c.fn = "gate" /\ c.requiredNumbers # <<>>
           /\ c.outcome.kind = "bool") =>
             /\ c.origin.def
             /\ c.origin.at <= c.now
             /\ c.now - c.origin.at < GROUP_ID_CACHE_TTL_MS + MEMBERSHIP_CACHE_TTL_MS
  /\ \A k \in DOMAIN membershipCache :
       /\ decisionOrigin[k].def
       /\ decisionOrigin[k].at <= membershipCache[k].cachedAt
       /\ membershipCache[k].cachedAt - decisionOrigin[k].at < GROUP_ID_CACHE_TTL_MS

\* the gate has returned a decision from the cache that stems from a
\* request issued 5 min or more before the call: older than the snapshot
\* could be, by the age of the decision
C30_Witness ==
  \E p \in Live :
    LET c == calls[p]
    IN /\ c.pc = "done" /\ c.fn = "gate" /\ c.decisionHit
       /\ c.origin.def
       /\ c.now - c.origin.at >= GROUP_ID_CACHE_TTL_MS
       /\ c.now - c.cached.cachedAt > 0
       /\ c.cached.cachedAt - c.origin.at > 0

C32_SameSnapshot ==
  /\ standalone.cachedGroups = cachedGroups
  /\ standalone.cachedAt = cachedAt
  /\ standalone.cacheAccountKey = cacheAccountKey

C32_Equivalent ==
  /\ (Quiet /\ twin.pc = "idle") => C32_SameSnapshot
  /\ \A p \in Live :
       (calls[p].pc = "done" /\ calls[p].fn = "resolve" /\ twin.pc = "done") =>
         /\ twin.groupId = calls[p].groupId /\ twin.opts = calls[p].opts
         /\ twin.now = calls[p].now
         /\ twin.rpcs = calls[p].rpcs
         /\ twin.resp = calls[p].resp
         /\ twin.outcome = calls[p].outcome
         /\ C32_SameSnapshot

\* both resolvers, asked for the lower-cased id while the snapshot of each
\* was of the other account, have fetched the list, returned the id in
\* its stored case and left the same snapshot under the new key
C32_Witness ==
  \E p \in Live :
    /\ calls[p].pc = "done" /\ calls[p].fn = "resolve" /\ twin.pc = "done"
    /\ calls[p].groupId = IdLower
    /\ calls[p].rpcs = 1 /\ twin.rpcs = 1
    /\ twin.outcome = RetId(IdAb)
    /\ prev.is /\ prev.opts # calls[p].opts /\ prev.outcome.kind = "id"
    /\ standalone.cachedGroups.def
    /\ standalone.cachedAt = twin.now
    /\ standalone.cacheAccountKey = twin.accountKey
    /\ C32_SameSnapshot

====
